---- MODULE Spec2Model ----
(***************************************************************************)
(* Model of the OCR pipeline of proyecto-ocr-odoo:                         *)
(*   - OCROrchestrator.process_with_fallback                               *)
(*       (src/src/integrations/ocr_providers/base_provider.py)             *)
(*   - OCRProcessor.process_image and its result cache                     *)
(*       (src/src/core/ocr_processor.py)                                   *)
(*   - OCRSpaceProvider: construction, registration, the API retry loop    *)
(*       (src/src/integrations/ocr_providers/ocr_space.py)                 *)
(*   - TesseractProvider.process_image and its temporary files             *)
(*       (src/src/integrations/ocr_providers/tesseract.py)                 *)
(*   - TextPostprocessor.process_advanced                                  *)
(*       (src/src/core/text_postprocessor.py)                              *)
(*   - OCRSpaceProvider._extract_digits_only and _map_language_code        *)
(*       (src/src/integrations/ocr_providers/ocr_space.py)                 *)
(*   - ImagePreprocessor: preprocess_advanced, optimize_for_ocr,           *)
(*       detect_document_bounds (src/src/core/image_preprocessor.py)       *)
(*   - concurrent OCRProcessor.process_image calls at their cache steps    *)
(*       (src/src/core/ocr_processor.py)                                   *)
(*   - DatabaseManager: its operations and their transactions              *)
(*       (src/backend/database.py)                                         *)
(*   - OCRSpaceClient: concurrent calls and their temporary file           *)
(*       (src/backend/ocr_space_client.py)                                 *)
(*                                                                         *)
(* Representation.                                                         *)
(*   Confidences of OCR providers (floats on the 0..100 scale in the code) *)
(*   are integers in tenths: 400 is 40.0, 7 is 0.7.  The orchestrator's    *)
(*   threshold is in the same unit.  The pipeline's blended confidence     *)
(*   (0.7 * ocr + 0.3 * postprocess) is in units of 1/10000.               *)
(*   A text is a sequence of one-character strings.                        *)
(*   An error message is a record [kind, who]: who is the provider that    *)
(*   produced it (0 when no provider did).                                 *)
(***************************************************************************)
EXTENDS Integers, Sequences, FiniteSets, TLC

VARIABLES
    providers,                 \* OCROrchestrator.providers: registered providers, in priority order
    min_confidence_threshold,  \* OCROrchestrator.min_confidence_threshold (tenths)
    infoEnabled,               \* logger.isEnabledFor(logging.INFO) for the ocr_processor module logger
    cache,                     \* OCRProcessor.cache: image hash -> final_result
    stats,                     \* OCRProcessor.stats: total_processed, cache_hits
    pc,                        \* position of the running call
    caller,                    \* who runs process_with_fallback: "none", "direct" or "pipeline"
    orch,                      \* locals of the running process_with_fallback call
    call,                      \* arguments and locals of the last process_image call
    ret,                       \* what the last process_image call returned
    ncalls,                    \* number of process_image calls started
    prev,                      \* the process_image call before the last one
    api,                       \* OCRSpaceProvider: its construction and its running API call
    tess,                      \* TesseractProvider.process_image: its locals and the temporary files
    txt,                       \* a text or a language code and what the text functions make of it
    pre,                       \* a call of one of the ImagePreprocessor methods
    conc,                      \* concurrent process_image calls at their cache steps
    db,                        \* DatabaseManager: the database file, the connection and the running operation
    client                     \* OCRSpaceClient: temp_image.jpg and the concurrent calls that use it

vars == <<providers, min_confidence_threshold, infoEnabled, cache, stats,
          pc, caller, orch, call, ret, ncalls, prev, api, tess, txt, pre, conc,
          db, client>>

(***************************************************************************)
(* Bounds of the model.                                                    *)
(***************************************************************************)
MaxProviders == 3      \* providers registered in the orchestrator checked on its own
MaxCalls == 3          \* process_image calls in one behaviour

(***************************************************************************)
(* Program constants.                                                      *)
(***************************************************************************)
DefaultThreshold == 7          \* min_confidence_threshold = 0.7, in tenths
MinImageSide == 100            \* validate_image: width < 100 or height < 100
MinResolution == 1000          \* _ensure_min_resolution: width < 1000 or height < 1000
MaxCacheSize == 100            \* len(self.cache) > 100

(***************************************************************************)
(* Inputs.                                                                 *)
(***************************************************************************)
\* A threshold of 70 on the providers' 0..100 scale, in tenths.
PercentThreshold == 70 * 10

Images ==
    { [mode |-> "RGB",  width |-> 50,   height |-> 50],
      [mode |-> "RGB",  width |-> 1200, height |-> 800],
      [mode |-> "CMYK", width |-> 1200, height |-> 800] }

NoImage == [mode |-> "none", width |-> 0, height |-> 0]

EmptyText == << >>
Text1 == <<"a", " ", " ", "b">>
Text2 == <<"b">>

Confidences == {400, 600, 950}

(***************************************************************************)
(* Error messages and OCRResult.                                           *)
(***************************************************************************)
ErrMsg(kind, who) == [kind |-> kind, who |-> who]
NoError == ErrMsg("none", 0)
DefaultLastError == ErrMsg("No se pudo procesar la imagen", 0)

\* OCRResult(success, text, confidence, provider, error_message); last_error is the
\* error quoted inside "Todos los proveedores fallaron. Ultimo error: ..."
OCRResult(success, text, confidence, provider, error_message, last_error) ==
    [success |-> success, text |-> text, confidence |-> confidence,
     provider |-> provider, error_message |-> error_message,
     last_error |-> last_error]

NoResult == OCRResult(FALSE, EmptyText, 0, 0, NoError, NoError)

\* What one provider.process_image call can produce: a dict with success=True
\* (an empty text has confidence 0.0 in both providers' estimates), a dict with
\* success=False and an error message, or a raised exception.
ProviderOutcomes ==
    { [kind |-> "result", success |-> TRUE, text |-> EmptyText, confidence |-> 0] }
    \cup { [kind |-> "result", success |-> TRUE, text |-> t, confidence |-> c] :
              t \in {Text1, Text2}, c \in Confidences }
    \cup { [kind |-> "result", success |-> FALSE, text |-> EmptyText, confidence |-> 0],
           [kind |-> "raise",  success |-> FALSE, text |-> EmptyText, confidence |-> 0] }

(***************************************************************************)
(* OCRProvider.validate_image: only the size check makes an image invalid. *)
(***************************************************************************)
validate_image(image) ==
    ~(image.width < MinImageSide \/ image.height < MinImageSide)

(***************************************************************************)
(* OCROrchestrator.process_with_fallback                                   *)
(***************************************************************************)
Min(a, b) == IF a < b THEN a ELSE b

\* max_attempts = max_attempts or len(self.providers); the argument is << >>
\* when omitted (None) and <<k>> when given.
EffectiveMaxAttempts(max_attempts) ==
    IF max_attempts = << >> \/ max_attempts[1] = 0
    THEN Len(providers)
    ELSE max_attempts[1]

\* self.providers[:max_attempts]
AttemptList(max_attempts) ==
    SubSeq(providers, 1, Min(EffectiveMaxAttempts(max_attempts), Len(providers)))

OrchIdle ==
    [image |-> NoImage, max_attempts |-> << >>, i |-> 0,
     has_last_result |-> FALSE, last_result |-> NoResult,
     last_error |-> DefaultLastError,
     invoked |-> << >>, outcomes |-> << >>, result |-> NoResult]

\* Entry of the call: the locals before the loop (lines 188-197).
OrchEnter(image, max_attempts) ==
    [OrchIdle EXCEPT !.image = image, !.max_attempts = max_attempts, !.i = 1]

\* A slip: the threshold read as a fraction of the providers' 0..100 scale.
AcceptsScaled(result, threshold) ==
    result.success /\ result.confidence >= threshold * 100

\* result.success and result.confidence >= self.min_confidence_threshold
Accepts(result, threshold) ==
    result.success /\ result.confidence >= threshold

\* A slip: a recorded low-confidence result is kept, later ones are dropped.
RememberFirst(o, result) ==
    IF o.has_last_result
    THEN o
    ELSE [o EXCEPT !.has_last_result = TRUE, !.last_result = result]

\* last_result = result (line 230)
Remember(o, result) ==
    [o EXCEPT !.has_last_result = TRUE, !.last_result = result]

\* A direct call of the orchestrator.
DirectCall(image, max_attempts) ==
    /\ pc = "idle"
    /\ pc' = "orch_begin"
    /\ caller' = "direct"
    /\ orch' = OrchEnter(image, max_attempts)
    /\ UNCHANGED <<providers, min_confidence_threshold, infoEnabled, cache, stats,
                   call, ret, ncalls, prev, api, tess, txt, pre, conc,
                   db, client>>

\* if not self.providers: return OCRResult(success=False, ...)
OrchBegin ==
    /\ pc = "orch_begin"
    /\ IF Len(providers) = 0
       THEN /\ orch' = [orch EXCEPT !.result =
                          OCRResult(FALSE, EmptyText, 0, 0,
                                    ErrMsg("No hay proveedores de OCR disponibles", 0),
                                    NoError)]
            /\ pc' = "orch_ret"
       ELSE /\ orch' = orch
            /\ pc' = "orch_loop"
    /\ UNCHANGED <<providers, min_confidence_threshold, infoEnabled, cache, stats,
                   caller, call, ret, ncalls, prev, api, tess, txt, pre, conc,
                   db, client>>

\* One iteration of the for loop (lines 199-239) with provider number orch.i of
\* the attempt list, whose process_image call ends as `o`.
Attempt(o) ==
    LET p == AttemptList(orch.max_attempts)[orch.i]
        result == OCRResult(o.success, o.text, o.confidence, p,
                            IF o.success THEN NoError ELSE ErrMsg("failed", p), NoError)
        called == <<[provider |-> p, method |-> "validate_image"],
                    [provider |-> p, method |-> "preprocess_for_provider"],
                    [provider |-> p, method |-> "process_image"]>>
        seen == [provider |-> p, kind |-> o.kind, result |-> result]
        next == [orch EXCEPT !.i = @ + 1, !.invoked = @ \o called,
                             !.outcomes = Append(@, seen)]
    IN  IF o.kind = "raise"
        THEN /\ orch' = [next EXCEPT !.last_error = ErrMsg("exception", p)]
             /\ pc' = "orch_loop"
        ELSE IF Accepts(result, min_confidence_threshold)
        THEN /\ orch' = [next EXCEPT !.result = result]
             /\ pc' = "orch_ret"
        ELSE IF result.success
        THEN /\ orch' = Remember(next, result)
             /\ pc' = "orch_loop"
        ELSE /\ orch' = [next EXCEPT !.last_error = result.error_message]
             /\ pc' = "orch_loop"

\* if not validation['valid']: continue
Rejected ==
    LET p == AttemptList(orch.max_attempts)[orch.i]
    IN  /\ orch' = [orch EXCEPT
                      !.i = @ + 1,
                      !.invoked = Append(@, [provider |-> p, method |-> "validate_image"]),
                      !.outcomes = Append(@, [provider |-> p, kind |-> "invalid",
                                              result |-> NoResult])]
        /\ pc' = "orch_loop"

OrchAttempt ==
    /\ pc = "orch_loop"
    /\ orch.i <= Len(AttemptList(orch.max_attempts))
    /\ IF validate_image(orch.image)
       THEN \E o \in ProviderOutcomes : Attempt(o)
       ELSE Rejected
    /\ UNCHANGED <<providers, min_confidence_threshold, infoEnabled, cache, stats,
                   caller, call, ret, ncalls, prev, api, tess, txt, pre, conc,
                   db, client>>

\* A slip: an error met after a low-confidence success hides that success.
FinalResultErrorWins(o) ==
    IF o.has_last_result /\ o.last_error = DefaultLastError
    THEN o.last_result
    ELSE OCRResult(FALSE, EmptyText, 0, 0,
                   ErrMsg("Todos los proveedores fallaron", 0), o.last_error)

\* After the loop (lines 241-252).
FinalResult(o) ==
    IF o.has_last_result
    THEN o.last_result
    ELSE OCRResult(FALSE, EmptyText, 0, 0,
                   ErrMsg("Todos los proveedores fallaron", 0), o.last_error)

OrchFinish ==
    /\ pc = "orch_loop"
    /\ orch.i > Len(AttemptList(orch.max_attempts))
    /\ orch' = [orch EXCEPT !.result = FinalResult(orch)]
    /\ pc' = "orch_ret"
    /\ UNCHANGED <<providers, min_confidence_threshold, infoEnabled, cache, stats,
                   caller, call, ret, ncalls, prev, api, tess, txt, pre, conc,
                   db, client>>

\* The direct caller takes the result.
DirectReturn ==
    /\ pc = "orch_ret"
    /\ caller = "direct"
    /\ pc' = "idle"
    /\ caller' = "none"
    /\ orch' = OrchIdle
    /\ UNCHANGED <<providers, min_confidence_threshold, infoEnabled, cache, stats,
                   call, ret, ncalls, prev, api, tess, txt, pre, conc,
                   db, client>>

(***************************************************************************)
(* The providers and the text post-processor at rest.                      *)
(***************************************************************************)
NoResponse == [kind |-> "none", code |-> 0]
NoApiResult == [success |-> FALSE, text |-> << >>,
                error_message |-> [text |-> "none", n |-> 0]]

\* An OCRSpaceProvider that is not constructed yet.
ApiIdle == [pc |-> "idle", purpose |-> "none", constructed |-> FALSE,
            max_retries |-> 0, is_available |-> FALSE, init_response |-> NoResponse,
            engine |-> 0, retries |-> 0, attempt |-> 0, backoff |-> 0,
            digits_only |-> FALSE, fallback |-> FALSE, attempts |-> << >>,
            raised |-> FALSE, result |-> NoApiResult]

\* A TesseractProvider before its first process_image call.
TessIdle == [pc |-> "idle", ncalls |-> 0, temp_cleanup |-> TRUE, fs |-> {},
             temp_files |-> << >>, created |-> {}, outcome |-> "none",
             success |-> FALSE, unlink_failed |-> FALSE]

\* No text.
TxtIdle == [pc |-> "idle", text |-> << >>, language |-> "none",
            once |-> << >>, twice |-> << >>, confused |-> << >>,
            digits |-> << >>, mapped |-> "none", mapped_twice |-> "none"]

\* No call of the image preprocessor.
PreIdle == [pc |-> "idle", method |-> "none", given |-> NoImage,
            image |-> NoImage, processed_image |-> NoImage,
            document_type |-> "none", profile |-> "none", fails |-> "none",
            step |-> 0, raised |-> FALSE, returned |-> "none",
            result |-> NoImage, preprocessing_params |-> << >>,
            applied |-> << >>]

\* The tables of a database in which init_database has run and nothing else.
EmptyTables == [ocr_jobs |-> {}, odoo_records |-> {},
                sqlite_sequence |-> [ocr_jobs |-> 0, odoo_records |-> 0]]

\* A DatabaseManager after construction, no operation running.
DbIdle == [pc |-> "idle", op |-> "none", file |-> EmptyTables,
           connection |-> EmptyTables, before |-> EmptyTables,
           after |-> EmptyTables, image_data |-> 0, locked |-> FALSE,
           statement_raised |-> FALSE, raised |-> FALSE, returned |-> 0]

\* temp_image.jpg does not exist.
NoFile == [exists |-> FALSE, image |-> 0]

\* No temp_image.jpg, no call of the client.
ClientIdle == [temp_image |-> NoFile, calls |-> << >>]

\* No concurrent calls.
ConcIdle == [cache |-> {}, order |-> << >>, threads |-> << >>,
             evicted |-> << >>]

(***************************************************************************)
(* The orchestrator on its own: any number of registered providers, the    *)
(* default threshold or a threshold of 70 on the providers' scale.         *)
(***************************************************************************)
CallIdle == [image |-> NoImage, use_cache |-> FALSE, image_hash |-> 0,
             stages |-> {}, cache_before |-> << >>,
             raised |-> "none", ocr_success |-> FALSE]
RetNone == [success |-> FALSE, text |-> EmptyText, confidence |-> 0,
            cached |-> FALSE, image_hash |-> 0, error_message |-> "none"]
PrevNone == [image |-> NoImage, use_cache |-> FALSE, stages |-> {}, ret |-> RetNone]

MaxAttemptsArgs == { << >> } \cup { <<k>> : k \in 0..MaxProviders }

InitOrch ==
    /\ \E n \in 0..MaxProviders : providers = [k \in 1..n |-> k]
    /\ min_confidence_threshold \in {DefaultThreshold, PercentThreshold}
    /\ infoEnabled = FALSE
    /\ cache = << >>
    /\ stats = [total_processed |-> 0, cache_hits |-> 0]
    /\ pc = "idle"
    /\ caller = "none"
    /\ orch = OrchIdle
    /\ call = CallIdle
    /\ ret = RetNone
    /\ ncalls = 0
    /\ prev = PrevNone
    /\ api = ApiIdle
    /\ tess = TessIdle
    /\ txt = TxtIdle
    /\ pre = PreIdle
    /\ conc = ConcIdle
    /\ db = DbIdle
    /\ client = ClientIdle

NextOrch ==
    \/ \E image \in Images, m \in MaxAttemptsArgs : DirectCall(image, m)
    \/ OrchBegin
    \/ OrchAttempt
    \/ OrchFinish
    \/ DirectReturn

SpecOrch == InitOrch /\ [][NextOrch]_vars

(***************************************************************************)
(* TextPostprocessor.process_advanced, for texts over the letters a, b, n, *)
(* I, the digit 1, the bar and the space, in a document of type 'general'. *)
(* The cleanup strips the text, applies the correction patterns in the     *)
(* order of their dictionary and collapses every run of whitespace into    *)
(* one space; the language corrections follow, then the final strip.  The  *)
(* patterns on quotes, punctuation and brackets and the word patterns of   *)
(* the languages match nothing in these texts.                             *)
(***************************************************************************)
RECURSIVE CollapseSpaces(_)
CollapseSpaces(text) ==
    IF Len(text) <= 1 THEN text
    ELSE IF text[1] = " " /\ text[2] = " "
    THEN CollapseSpaces(Tail(text))
    ELSE <<text[1]>> \o CollapseSpaces(Tail(text))

RECURSIVE LStrip(_)
LStrip(text) ==
    IF text # << >> /\ text[1] = " " THEN LStrip(Tail(text)) ELSE text

RECURSIVE RStrip(_)
RStrip(text) ==
    IF text # << >> /\ text[Len(text)] = " "
    THEN RStrip(SubSeq(text, 1, Len(text) - 1))
    ELSE text

Strip(text) == RStrip(LStrip(text))

\* Matches of the common-word rule: among these texts only the word "a".
CommonWordMatches(text) ==
    Cardinality({ i \in 1..Len(text) :
                    /\ text[i] = "a"
                    /\ (i = 1 \/ text[i - 1] = " ")
                    /\ (i = Len(text) \/ text[i + 1] = " ") })

\* _calculate_confidence in thousandths: weight 0.2 * min(matches / 10, 1), halved
\* for a text shorter than 10 characters; the other rules match nothing here.
PostConfidence(text) ==
    IF text = << >> THEN 0
    ELSE LET score == 20 * Min(CommonWordMatches(text), 10)
         IN  IF Len(text) < 10 THEN score \div 2 ELSE score

\* The characters of the classes [A-Za-záéíóúüñ] and \d that the patterns
\* read or write, and the characters [aeiou] matches under re.IGNORECASE.
Letters == {"a", "b", "c", "d", "e", "g", "n", "x", "y", "ñ", "Ñ",
            "C", "D", "I", "O", "R", "S", "B", "G"}
Digits == {"0", "1", "2", "3", "4", "5", "6", "7", "8", "9"}
Vowels == {"a", "e", "I", "O"}

\* \w
IsWordChar(c) == c \in Letters \cup Digits

\* The length of the run of word characters the text starts with.
RECURSIVE WordLen(_)
WordLen(text) ==
    IF text = << >> \/ ~IsWordChar(text[1]) THEN 0 ELSE 1 + WordLen(Tail(text))

\* \b(outer+)inner(outer+)\b on one word: the pattern starts and ends at a word
\* boundary, so it matches the whole word or nothing.
FixWord(word, outer, inner, replacement) ==
    LET at == { k \in 2..(Len(word) - 1) :
                  /\ word[k] = inner
                  /\ \A j \in DOMAIN word \ {k} : word[j] \in outer }
    IN  IF at = {} THEN word
        ELSE [word EXCEPT ![CHOOSE k \in at : TRUE] = replacement]

\* re.sub of such a pattern: every word of the text, from left to right.
RECURSIVE SubWords(_, _, _, _)
SubWords(text, outer, inner, replacement) ==
    IF text = << >> THEN << >>
    ELSE LET n == WordLen(text)
         IN  IF n = 0
             THEN <<text[1]>> \o SubWords(Tail(text), outer, inner, replacement)
             ELSE FixWord(SubSeq(text, 1, n), outer, inner, replacement)
                  \o SubWords(SubSeq(text, n + 1, Len(text)), outer, inner, replacement)

\* Digits read for letters inside a word of letters, letters read for digits
\* inside a number: <<what is found, what replaces it>>, in dictionary order.
DigitRules == << <<"0", "O">>, <<"1", "I">>, <<"5", "S">>, <<"8", "B">>, <<"6", "G">> >>
LetterRules == << <<"O", "0">>, <<"I", "1">>, <<"S", "5">>, <<"B", "8">> >>

RECURSIVE ApplyRules(_, _, _)
ApplyRules(text, rules, outer) ==
    IF rules = << >> THEN text
    ELSE ApplyRules(SubWords(text, outer, rules[1][1], rules[1][2]), Tail(rules), outer)

\* r'\|': 'I'
Replace(text, from, to) ==
    [k \in DOMAIN text |-> IF text[k] = from THEN to ELSE text[k]]

\* The nine letter/digit patterns of correction_patterns, in dictionary
\* order: the digits inside letters first, then the letters inside digits.
ConfusionStep(text) ==
    ApplyRules(ApplyRules(text, DigitRules, Letters), LetterRules, Digits)

\* _basic_cleanup: the strip of the (single) line, then the patterns.
_basic_cleanup(text) ==
    CollapseSpaces(Replace(ConfusionStep(Strip(text)), "|", "I"))

\* r'([aeiou])n([aeiou])': r'\1ñ\2' with re.IGNORECASE: the matches do not
\* overlap, the search goes on after the second vowel.
RECURSIVE LostEnye(_)
LostEnye(text) ==
    IF Len(text) < 3 THEN text
    ELSE IF text[1] \in Vowels /\ text[2] = "n" /\ text[3] \in Vowels
    THEN <<text[1], "ñ", text[3]>> \o LostEnye(SubSeq(text, 4, Len(text)))
    ELSE <<text[1]>> \o LostEnye(Tail(text))

\* r'\bñ\b': 'ñ', then r'\bÑ\b': 'Ñ', both with re.IGNORECASE: a word made
\* of the one letter ñ, small or capital, ends as the capital.
RECURSIVE LoneEnye(_)
LoneEnye(text) ==
    IF text = << >> THEN << >>
    ELSE LET n == WordLen(text)
         IN  IF n = 0 THEN <<text[1]>> \o LoneEnye(Tail(text))
             ELSE (IF n = 1 /\ text[1] \in {"ñ", "Ñ"} THEN <<"Ñ">>
                   ELSE SubSeq(text, 1, n))
                  \o LoneEnye(SubSeq(text, n + 1, Len(text)))

_apply_language_corrections(text, language) ==
    IF language = "es" THEN LostEnye(LoneEnye(text)) ELSE text

process_advanced(text, language) ==
    IF text = << >>
    THEN [text |-> << >>, confidence_score |-> 0]
    ELSE LET specialized == _apply_language_corrections(_basic_cleanup(text), language)
         IN  [text |-> Strip(specialized),
              confidence_score |-> PostConfidence(specialized)]

(***************************************************************************)
(* ImagePreprocessor: what the pipeline's preprocessing does to the size.  *)
(***************************************************************************)
\* int(side * scale_factor) with scale_factor = 1000 / shorter in double
\* precision: the product falls just short of the exact value for some sides
\* (for 19 of the sides used here), and int() then loses a pixel.
ScaledSide(side, shorter) ==
    LET exact == (side * MinResolution) \div shorter
    IN  IF <<side, shorter>> \in {<<19, 19>>} THEN exact - 1 ELSE exact

_ensure_min_resolution(image) ==
    IF image.width < MinResolution \/ image.height < MinResolution
    THEN LET shorter == Min(image.width, image.height)
         IN  [image EXCEPT !.width = ScaledSide(image.width, shorter),
                           !.height = ScaledSide(image.height, shorter)]
    ELSE image

\* preprocess_advanced: the thresholded image at the minimum resolution, or, when a
\* step raised, the image it was given.
preprocess_advanced(image, ok) ==
    IF ok THEN _ensure_min_resolution([image EXCEPT !.mode = "L"]) ELSE image

(***************************************************************************)
(* OCRProcessor.process_image                                              *)
(***************************************************************************)
\* image.save(buffer, format='PNG') raises for a mode PNG cannot hold.
PngWritable(image) == image.mode \in {"1", "L", "LA", "I", "P", "RGB", "RGBA"}

\* _calculate_image_hash: SHA-256 of the PNG bytes, one value per image.
Hash(image) == image.height * 10000 + image.width

\* The steps of process_image that run inside its try block (lines 85-198).
TryBlock == {"hash", "cache", "preprocess", "orchestrator", "postprocess",
             "store", "stats"}

\* A slip: the hash is computed before the try block is entered.
CatchesAfterHash(step) == step \in TryBlock \ {"hash"}

\* except Exception as e (line 200): an exception of any step of the try block
\* is caught.
Catches(step) == step \in TryBlock

\* The record of the except branch (lines 206-214).
ErrorRecord(message) ==
    [success |-> FALSE, text |-> EmptyText, confidence |-> 0,
     cached |-> FALSE, image_hash |-> 0, error_message |-> message]

\* What a step that raises leaves behind: the record of the except branch, or
\* nothing when the exception leaves process_image.
RaiseReturn(step, message) ==
    IF Catches(step) THEN ErrorRecord(message) ELSE RetNone
AfterRaise(step) == IF Catches(step) THEN "pi_done" ELSE "pi_raised"

\* cached_result = self.cache[image_hash].copy(); cached_result['cached'] = True
CachedCopy(entry) == [entry EXCEPT !.cached = TRUE]

\* A slip: the lookup ignores use_cache.
CacheLookupAlways(use_cache, image_hash) == image_hash \in DOMAIN cache

\* A slip: the lookup uses the shortened hash that the log lines print.
CacheLookupShortKey(use_cache, image_hash) ==
    use_cache /\ (image_hash % 10000) \in DOMAIN cache

\* use_cache and image_hash in self.cache
CacheLookup(use_cache, image_hash) == use_cache /\ image_hash \in DOMAIN cache

MinKey(keys) == CHOOSE k \in keys : \A other \in keys : k <= other

\* A slip: the entry is stored and nothing is removed.
CacheInsertOnly(c, image_hash, final_result) ==
    [k \in DOMAIN c \cup {image_hash} |->
        IF k = image_hash THEN final_result ELSE c[k]]

\* self.cache[image_hash] = final_result.copy(), then the size check (lines 185-191)
CacheInsert(c, image_hash, final_result) ==
    LET put == [k \in DOMAIN c \cup {image_hash} |->
                   IF k = image_hash THEN final_result ELSE c[k]]
    IN  IF Cardinality(DOMAIN put) > MaxCacheSize
        THEN [k \in DOMAIN put \ {MinKey(DOMAIN put)} |-> put[k]]
        ELSE put

\* A slip: every result is stored, failed ones too.
ShouldStoreAny(final_result, use_cache) == use_cache

\* if final_result['success'] and use_cache
ShouldStore(final_result, use_cache) == final_result.success /\ use_cache

\* A slip: the text is not looked at.
PipelineSuccessOcrOnly(ocr_result, postprocess_result) == ocr_result.success

\* success = ocr_result.success and len(postprocess_result['text'].strip()) > 0
PipelineSuccess(ocr_result, postprocess_result) ==
    ocr_result.success /\ Len(Strip(postprocess_result.text)) > 0

\* text_postprocessor.process_advanced(ocr_result.text, language, document_type)
\* for each text a provider returns, with the default language of process_image.
ProviderTexts == {EmptyText, Text1, Text2}
PostProcessed == [text \in ProviderTexts |-> process_advanced(text, "es")]

\* Lines 82-99: the hash, then the cache lookup; a hit returns at once.
PI_Begin(image, use_cache) ==
    /\ pc \in {"idle", "pi_done"}
    /\ ncalls < MaxCalls
    /\ ncalls' = ncalls + 1
    /\ prev' = [image |-> call.image, use_cache |-> call.use_cache,
                 stages |-> call.stages, ret |-> ret]
    /\ caller' = "pipeline"
    /\ orch' = OrchIdle
    /\ IF ~PngWritable(image)
       THEN /\ call' = [CallIdle EXCEPT !.image = image, !.use_cache = use_cache,
                                         !.cache_before = cache, !.raised = "hash"]
            /\ ret' = RaiseReturn("hash", "cannot write mode as PNG")
            /\ pc' = AfterRaise("hash")
            /\ stats' = stats
       ELSE LET h == Hash(image)
                c == [CallIdle EXCEPT !.image = image, !.use_cache = use_cache,
                                      !.image_hash = h, !.cache_before = cache]
            IN  IF CacheLookup(use_cache, h)
                THEN /\ stats' = [stats EXCEPT !.cache_hits = @ + 1]
                     /\ call' = [c EXCEPT !.stages = {"cache"},
                                          !.raised = IF infoEnabled THEN "cache"
                                                                    ELSE "none"]
                     /\ ret' = IF infoEnabled
                               THEN RaiseReturn("cache",
                                        "_log() got an unexpected keyword argument")
                               ELSE CachedCopy(cache[h])
                     /\ pc' = IF infoEnabled THEN AfterRaise("cache") ELSE "pi_done"
                ELSE /\ stats' = stats
                     /\ call' = c
                     /\ ret' = RetNone
                     /\ pc' = "pi_preprocess"
    /\ UNCHANGED <<providers, min_confidence_threshold, infoEnabled, cache,
                   api, tess, txt, pre, conc,
                   db, client>>

\* Lines 101-133: preprocessing, then the call of the orchestrator.
PI_Preprocess ==
    /\ pc = "pi_preprocess"
    /\ \E ok \in BOOLEAN :
          orch' = OrchEnter(preprocess_advanced(call.image, ok), << >>)
    /\ call' = [call EXCEPT !.stages = @ \cup {"preprocess", "orchestrator"}]
    /\ pc' = "orch_begin"
    /\ UNCHANGED <<providers, min_confidence_threshold, infoEnabled, cache, stats,
                   caller, ret, ncalls, prev, api, tess, txt, pre, conc,
                   db, client>>

\* Lines 135-198: post-processing, the final record, the cache, the statistics.
PI_Finish ==
    /\ pc = "orch_ret"
    /\ caller = "pipeline"
    /\ LET ocr_result == orch.result
           postprocess_result == PostProcessed[ocr_result.text]
           final_result ==
               [success |-> PipelineSuccess(ocr_result, postprocess_result),
                text |-> postprocess_result.text,
                confidence |-> ocr_result.confidence * 700
                               + postprocess_result.confidence_score * 3,
                cached |-> FALSE,
                image_hash |-> call.image_hash,
                error_message |-> "none"]
       IN  /\ cache' = IF ShouldStore(final_result, call.use_cache)
                       THEN CacheInsert(cache, call.image_hash, final_result)
                       ELSE cache
           /\ ret' = final_result
    /\ stats' = [stats EXCEPT !.total_processed = @ + 1]
    /\ call' = [call EXCEPT !.stages = @ \cup {"postprocess"},
                            !.ocr_success = orch.result.success]
    /\ orch' = OrchIdle
    /\ pc' = "pi_done"
    /\ UNCHANGED <<providers, min_confidence_threshold, infoEnabled, caller, ncalls, prev, api, tess, txt, pre, conc,
                   db, client>>

(***************************************************************************)
(* The pipeline: the processor registers OCR.Space (1) and Tesseract (2),  *)
(* each one only when it is available, in this order.                      *)
(***************************************************************************)
Init ==
    /\ providers \in { << >>, <<1>>, <<2>>, <<1, 2>> }
    /\ min_confidence_threshold = DefaultThreshold
    /\ infoEnabled \in BOOLEAN
    /\ cache = << >>
    /\ stats = [total_processed |-> 0, cache_hits |-> 0]
    /\ pc = "idle"
    /\ caller = "none"
    /\ orch = OrchIdle
    /\ call = CallIdle
    /\ ret = RetNone
    /\ ncalls = 0
    /\ prev = PrevNone
    /\ api = ApiIdle
    /\ tess = TessIdle
    /\ txt = TxtIdle
    /\ pre = PreIdle
    /\ conc = ConcIdle
    /\ db = DbIdle
    /\ client = ClientIdle

Next ==
    \/ \E image \in Images, use_cache \in BOOLEAN : PI_Begin(image, use_cache)
    \/ PI_Preprocess
    \/ OrchBegin
    \/ OrchAttempt
    \/ OrchFinish
    \/ PI_Finish

Spec == Init /\ [][Next]_vars

(***************************************************************************)
(* The same processor later in its life: the cache already holds the       *)
(* results of earlier calls, and clear_cache is called between calls.      *)
(***************************************************************************)
\* The result stored for an earlier image whose hash is image_hash.
StoredResult(image_hash) ==
    [success |-> TRUE, text |-> Text2, confidence |-> 0, cached |-> FALSE,
     image_hash |-> image_hash, error_message |-> "none"]

\* The cache after earlier calls: full, with hashes all above or all below
\* those of the images to come.
EarlierHashes(n, above) ==
    { (IF above THEN 9000000 ELSE 0) + k : k \in 1..n }

EarlierCaches ==
    { [h \in EarlierHashes(MaxCacheSize, above) |-> StoredResult(h)] :
        above \in BOOLEAN }

\* clear_cache: self.cache.clear()
ClearCache ==
    /\ pc \in {"idle", "pi_done"}
    /\ cache # << >>
    /\ cache' = << >>
    /\ UNCHANGED <<providers, min_confidence_threshold, infoEnabled, stats,
                   pc, caller, orch, call, ret, ncalls, prev, api, tess, txt,
                   pre, conc,
                   db, client>>

InitFilled ==
    /\ providers = <<1>>
    /\ min_confidence_threshold = DefaultThreshold
    /\ infoEnabled = FALSE
    /\ cache \in EarlierCaches
    /\ stats = [total_processed |-> 0, cache_hits |-> 0]
    /\ pc = "idle"
    /\ caller = "none"
    /\ orch = OrchIdle
    /\ call = CallIdle
    /\ ret = RetNone
    /\ ncalls = 0
    /\ prev = PrevNone
    /\ api = ApiIdle
    /\ tess = TessIdle
    /\ txt = TxtIdle
    /\ pre = PreIdle
    /\ conc = ConcIdle
    /\ db = DbIdle
    /\ client = ClientIdle

NextFilled ==
    \/ Next
    \/ ClearCache

SpecFilled == InitFilled /\ [][NextFilled]_vars

(***************************************************************************)
(* Claims about process_with_fallback.                                     *)
(***************************************************************************)
Returned == pc = "orch_ret"

\* The k-th attempt of the running call ended with a successful result.
Succeeded(k) ==
    /\ orch.outcomes[k].kind = "result"
    /\ orch.outcomes[k].result.success

\* ... whose confidence reaches the threshold
Good(k) ==
    /\ Succeeded(k)
    /\ orch.outcomes[k].result.confidence >= min_confidence_threshold

\* ... whose confidence is below the threshold
Low(k) ==
    /\ Succeeded(k)
    /\ orch.outcomes[k].result.confidence < min_confidence_threshold

Attempted == 1..Len(orch.outcomes)

\* C1: as soon as an attempt ends with a successful result whose confidence is
\* at least the threshold, the call returns that result: the attempt is the last
\* one, and no method of a provider later in the list has been invoked.
C1_ShortCircuit ==
    \A k \in Attempted :
        Good(k) =>
            /\ Returned
            /\ orch.result = orch.outcomes[k].result
            /\ k = Len(orch.outcomes)
            /\ \A e \in 1..Len(orch.invoked) :
                   \E j \in 1..k : orch.invoked[e].provider = orch.outcomes[j].provider

\* A call returned a good result while a later provider of the list was left alone.
C1_Witness ==
    /\ Returned
    /\ \E k \in Attempted :
          /\ Good(k)
          /\ k < Len(AttemptList(orch.max_attempts))
          /\ \A e \in 1..Len(orch.invoked) :
                 orch.invoked[e].provider # AttemptList(orch.max_attempts)[k + 1]

AllLow ==
    /\ Len(orch.outcomes) >= 1
    /\ \A k \in Attempted : Low(k)

C3_NeverWeakerLater ==
    Returned =>
        ~ \E j \in Attempted, k \in Attempted :
              /\ j < k
              /\ Low(j)
              /\ Low(k)
              /\ orch.outcomes[k].result.confidence < orch.outcomes[j].result.confidence
              /\ orch.result = orch.outcomes[k].result

\* C4: the returned result has success=true exactly when some attempted
\* provider returned success=true, whatever the later providers did.
C4_SuccessIsKept ==
    Returned => (orch.result.success <=> \E k \in Attempted : Succeeded(k))

\* A provider succeeded below the threshold, a later one failed or raised, and the
\* call returned.
C4_Witness ==
    /\ Returned
    /\ orch.result.success
    /\ \E j \in Attempted, k \in Attempted :
          /\ j < k
          /\ Low(j)
          /\ ~Succeeded(k)

\* C5: under the default threshold, a successful result with a confidence below
\* 70 does not end the call while a provider is left to try.
C5_Below70NotAccepted ==
    (Returned /\ min_confidence_threshold = DefaultThreshold) =>
        \A k \in Attempted :
            (/\ Succeeded(k)
             /\ orch.outcomes[k].result.confidence < PercentThreshold
             /\ k < Len(AttemptList(orch.max_attempts)))
            => Len(orch.outcomes) > k

(***************************************************************************)
(* Claims about process_image and the cache.                               *)
(***************************************************************************)
Done == pc = "pi_done"

\* The last call came right after a call with the same image.
SameImageAgain == ncalls >= 2 /\ prev.image = call.image

RanPipeline(stages) == {"preprocess", "orchestrator"} \subseteq stages

\* C6: if a call with use_cache=true returned success=true, the call that follows
\* it with the same image and use_cache=true returns the same text, confidence
\* and success, and cached=true.
C6_SecondCallIsCached ==
    (/\ Done
     /\ SameImageAgain
     /\ prev.use_cache
     /\ prev.ret.success
     /\ call.use_cache)
    => /\ ret.cached
       /\ ret.success = prev.ret.success
       /\ ret.text = prev.ret.text
       /\ ret.confidence = prev.ret.confidence

\* C7: every stored entry has success=true, and a call that returns
\* success=false leaves the cache as it found it.
C7_OnlySuccessCached ==
    /\ \A h \in DOMAIN cache : cache[h].success
    /\ (Done /\ ~ret.success) => cache = call.cache_before

\* A complete run with use_cache=true failed and stored nothing.
C7_Witness ==
    /\ Done
    /\ ~ret.success
    /\ call.use_cache
    /\ "postprocess" \in call.stages
    /\ call.image_hash \notin DOMAIN cache

\* C8 as stated, for images whose hash can be computed and with the logger below
\* INFO (the log call of the cache hit does not raise): after a call that
\* returned success=false, the next call with the same image and use_cache=true
\* is not served from the cache and runs preprocessing and the orchestrator.
C8_AfterFailureNoCache ==
    (/\ Done
     /\ ~infoEnabled
     /\ SameImageAgain
     /\ PngWritable(call.image)
     /\ ~prev.ret.success
     /\ call.use_cache)
    => /\ ~ret.cached
       /\ RanPipeline(call.stages)

\* C8 amended: after a call with use_cache=true that ran the pipeline and
\* returned success=false, the next call with the same image and use_cache=true
\* is not served from the cache and runs preprocessing and the orchestrator.
C8_AfterFailedRunNoCache ==
    (/\ Done
     /\ SameImageAgain
     /\ prev.use_cache
     /\ RanPipeline(prev.stages)
     /\ ~prev.ret.success
     /\ call.use_cache)
    => /\ ~ret.cached
       /\ "cache" \notin call.stages
       /\ RanPipeline(call.stages)

\* A failed run with use_cache=true was followed by a full run of the same image.
C8_Witness ==
    /\ Done
    /\ SameImageAgain
    /\ prev.use_cache
    /\ RanPipeline(prev.stages)
    /\ ~prev.ret.success
    /\ call.use_cache
    /\ RanPipeline(call.stages)
    /\ ret.success

\* C9: a call with use_cache=false leaves the cache as it found it at every
\* step, is not served from it, and runs the orchestrator even when an entry
\* for the image's hash is stored.
C9_NoCacheBypasses ==
    (pc # "idle" /\ ~call.use_cache) =>
        /\ cache = call.cache_before
        /\ Done =>
             /\ ~ret.cached
             /\ "cache" \notin call.stages
             /\ call.image_hash \in DOMAIN call.cache_before
                  => RanPipeline(call.stages)

\* A call with use_cache=false ran the whole pipeline with success while another
\* result stayed stored for its image.
C9_Witness ==
    /\ Done
    /\ ~call.use_cache
    /\ call.image_hash \in DOMAIN cache
    /\ "postprocess" \in call.stages
    /\ ret.success
    /\ cache[call.image_hash].confidence # ret.confidence

\* C10: a call with use_cache=true for an image whose hash is stored returns
\* from the lookup: no preprocessing, no orchestrator, no method of any provider.
C10_HitSkipsPipeline ==
    (/\ pc # "idle"
     /\ call.use_cache
     /\ call.image_hash \in DOMAIN call.cache_before)
    => /\ Done
       /\ call.stages = {"cache"}
       /\ orch = OrchIdle

\* A call was answered by the cache lookup.
C10_Witness ==
    /\ Done
    /\ call.use_cache
    /\ call.image_hash \in DOMAIN call.cache_before
    /\ call.stages = {"cache"}
    /\ stats.cache_hits >= 1


(***************************************************************************)
(* Claims about the failures of process_image.                             *)
(***************************************************************************)
\* C11: process_image never lets an exception out: when a step of the call
\* raised, the call returns a record with success=false, cached=false and an
\* error message.
C11_NeverPropagates ==
    /\ pc # "pi_raised"
    /\ (Done /\ call.raised # "none") =>
           /\ ~ret.success
           /\ ~ret.cached
           /\ ret.error_message # "none"

\* Both steps that can raise did so: the hash of one call, and the log line of
\* a cache hit of an earlier call.
C11_Witness ==
    /\ Done
    /\ call.raised = "hash"
    /\ prev.stages = {"cache"}
    /\ prev.ret.error_message = "_log() got an unexpected keyword argument"
    /\ ~ret.success
    /\ ~ret.cached

\* The image of the call is smaller than 100 pixels on a side.
TooSmall(image) == image.width < MinImageSide \/ image.height < MinImageSide

\* C12: a call of the pipeline on an image of 50x50 pixels returns
\* success=false, and no provider's process_image is invoked for it.
C12_SmallImageRejected ==
    (caller = "pipeline" /\ TooSmall(call.image)) =>
        /\ Done => ~ret.success
        /\ \A e \in 1..Len(orch.invoked) : orch.invoked[e].method # "process_image"

\* C14: a call that neither hit the cache nor raised returns success=true
\* exactly when the orchestrator's result had success=true and the returned
\* (post-processed) text is not empty once trimmed.
C14_SuccessNeedsText ==
    (Done /\ "postprocess" \in call.stages /\ call.raised = "none") =>
        (ret.success <=> (call.ocr_success /\ Strip(ret.text) # EmptyText))

\* The orchestrator returned a success with no text, and the call failed.
C14_Witness ==
    /\ Done
    /\ "postprocess" \in call.stages
    /\ call.ocr_success
    /\ ~ret.success


\* The error of an attempt that did not succeed: the error_message of a failed
\* result, the text of a raised exception, or the rejection of the image by
\* the provider's validate_image.
ErrorOf(outcome) ==
    IF outcome.kind = "raise" THEN ErrMsg("exception", outcome.provider)
    ELSE IF outcome.kind = "invalid" THEN ErrMsg("invalid", outcome.provider)
    ELSE outcome.result.error_message

TotalFailure ==
    /\ Returned
    /\ Len(orch.outcomes) >= 1
    /\ \A k \in Attempted : ~Succeeded(k)

\* C13: when process_with_fallback returns a failure because every attempt
\* failed, the message of the failure holds the error of the last attempt,
\* where a rejection by validate_image counts as an error like a failed result
\* and a raised exception do.
C13_LastErrorReported ==
    TotalFailure =>
        /\ ~orch.result.success
        /\ orch.result.last_error = ErrorOf(orch.outcomes[Len(orch.outcomes)])


(***************************************************************************)
(* OCRSpaceProvider._extract_digits_only: the number read out of the       *)
(* recognised text in digits-only mode.                                    *)
(***************************************************************************)
Sign == {"-"}
Separators == {".", ","}
Whitespace == {" ", "\n", "\r"}

\* The length of the run of characters of the class that starts at i.
RECURSIVE RunLen(_, _, _)
RunLen(text, i, class) ==
    IF i > Len(text) \/ text[i] \notin class THEN 0
    ELSE 1 + RunLen(text, i + 1, class)

\* A pattern is a sequence of character classes, each taken once ("1"), at
\* most once ("?"), once or more ("+") or any number of times ("*").  No
\* class of these patterns overlaps the class after it, so the greedy match
\* is the only one.  The position after the match begun at i, 0 for none.
RECURSIVE MatchEnd(_, _, _)
MatchEnd(text, i, pattern) ==
    IF pattern = << >> THEN i
    ELSE LET class == pattern[1][1]
             quantifier == pattern[1][2]
             run == RunLen(text, i, class)
         IN  IF quantifier = "?"
             THEN MatchEnd(text, IF run >= 1 THEN i + 1 ELSE i, Tail(pattern))
             ELSE IF quantifier = "*"
             THEN MatchEnd(text, i + run, Tail(pattern))
             ELSE IF run = 0 THEN 0
             ELSE IF quantifier = "1"
             THEN MatchEnd(text, i + 1, Tail(pattern))
             ELSE MatchEnd(text, i + run, Tail(pattern))

\* re.findall(pattern, text): the matches from left to right, each search
\* starting where the last match ended.
RECURSIVE FindAll(_, _, _)
FindAll(text, i, pattern) ==
    IF i > Len(text) THEN << >>
    ELSE LET end == MatchEnd(text, i, pattern)
         IN  IF end = 0 THEN FindAll(text, i + 1, pattern)
             ELSE <<SubSeq(text, i, end - 1)>> \o FindAll(text, end, pattern)

\* number_patterns: decimals, integers, and the two with spaces.
number_patterns ==
    << << <<Sign, "?">>, <<Digits, "+">>, <<Separators, "1">>, <<Digits, "+">> >>,
       << <<Sign, "?">>, <<Digits, "+">> >>,
       << <<Digits, "+">>, <<Whitespace, "+">>, <<Digits, "+">>,
          <<Separators, "1">>, <<Digits, "+">> >>,
       << <<Digits, "+">>, <<Whitespace, "+">>, <<Digits, "+">> >> >>

\* r'^-?\d+\.?\d*$'
ValidNumber(num) ==
    MatchEnd(num, 1, << <<Sign, "?">>, <<Digits, "+">>, <<{"."}, "?">>,
                        <<Digits, "*">> >>) = Len(num) + 1

\* re.sub(r'\s+', '', num).replace(',', '.')
CleanNumber(num) ==
    Replace(SelectSeq(num, LAMBDA c : c \notin Whitespace), ",", ".")

\* numbers.extend(matches) for each pattern in turn.
RECURSIVE AllMatches(_, _)
AllMatches(text, patterns) ==
    IF patterns = << >> THEN << >>
    ELSE FindAll(text, 1, patterns[1]) \o AllMatches(text, Tail(patterns))

\* Without a match of the patterns: the characters of r'[\d.,\-\s]+' joined,
\* the whitespace taken out.
LooseDigits(text) ==
    LET joined == SelectSeq(text, LAMBDA c : c \in Digits \cup Separators \cup Sign)
    IN  IF joined = << >> THEN << >> ELSE <<joined>>

\* The first element of the list.
FirstFound(numbers) == numbers[1]

\* processed_numbers.sort(key=len, reverse=True)[0]: the sort is stable, the
\* first of the longest is returned.
Longest(numbers) ==
    numbers[CHOOSE k \in DOMAIN numbers :
                /\ \A j \in DOMAIN numbers : Len(numbers[j]) <= Len(numbers[k])
                /\ \A j \in 1..(k - 1) : Len(numbers[j]) < Len(numbers[k])]

_extract_digits_only(text) ==
    IF text = << >> THEN << >>
    ELSE LET cleaned_text == Replace(Replace(text, "\n", " "), "\r", " ")
             matches == AllMatches(cleaned_text, number_patterns)
             numbers == IF matches = << >> THEN LooseDigits(cleaned_text) ELSE matches
             cleaned == [k \in DOMAIN numbers |-> CleanNumber(numbers[k])]
             processed_numbers == SelectSeq(cleaned, ValidNumber)
         IN  IF processed_numbers # << >> THEN Longest(processed_numbers)
             ELSE SelectSeq(text, LAMBDA c : c \in Digits)

(***************************************************************************)
(* OCRSpaceProvider: its construction, its registration in the             *)
(* orchestrator and _call_ocr_space_api                                    *)
(* (src/src/integrations/ocr_providers/ocr_space.py).                      *)
(* One step of the model is one iteration of the retry loop: the request,  *)
(* the answer, and what the code does with it, the wait included.  Every   *)
(* iteration is recorded in api.attempts with the seconds it slept.        *)
(***************************************************************************)
MaxRetries == 3        \* config['max_retries'] ranges over 0..MaxRetries

DefaultEngine == 2     \* 'default_engine': 2
TestEngine == 2        \* test_connection: _call_ocr_space_api(image_bytes, "spa", 2, 1, 10)
TestRetries == 1
FallbackEngine == 3    \* return self._call_ocr_space_api(image_bytes, language, 3, 1, timeout)
FallbackRetries == 1
InitialBackoff == 2    \* backoff = 2

OCRSpace == 1          \* the provider's place in the model's provider numbering

Http(code) == [kind |-> "http", code |-> code]

\* What one request can meet: an answer with parsed results, an answer with
\* none, an answer with IsErroredOnProcessing whose message holds "internal
\* server error" or does not, an HTTP error status, no connection, a timeout.
Responses ==
    { [kind |-> k, code |-> 200] :
          k \in {"ok", "no_results", "internal_server_error", "api_error"} }
    \cup { Http(c) : c \in {403, 429, 500, 502, 503} }
    \cup { [kind |-> k, code |-> 0] : k \in {"connection_error", "timeout"} }

ApiMsg(text, n) == [text |-> text, n |-> n]

\* A call of _call_ocr_space_api is entered: lines 320-346.
ApiEnter(a, engine, retries, digits_only, fallback) ==
    [a EXCEPT !.pc = "loop", !.engine = engine, !.retries = retries,
              !.attempt = 1, !.backoff = InitialBackoff,
              !.digits_only = digits_only, !.fallback = fallback]

\* return {"success": ..., "error_message": ...}
ApiReturn(a, success, message) ==
    [a EXCEPT !.pc = "ret",
              !.result = [success |-> success, text |-> << >>,
                          error_message |-> message]]

\* The ParsedText of the first parsed result of an answer.
ParsedTexts == { <<"1", "2">>, <<"1", "k", "2">>, <<"k", "W", "h">>, <<" ", "-", "1", ".", "2">> }

\* self._extract_digits_only(text) of every stripped ParsedText
Filtered == [parsed \in ParsedTexts |-> _extract_digits_only(Strip(parsed))]

\* text = parsed_result.get("ParsedText", "").strip(), filtered with
\* _extract_digits_only when digits_only (lines 390-396)
ResultText(parsed, digits_only) ==
    IF digits_only THEN Filtered[parsed] ELSE Strip(parsed)

\* return {"success": True, "text": text, ...}
ApiSuccess(a, text) ==
    [a EXCEPT !.pc = "ret",
              !.result = [success |-> TRUE, text |-> text,
                          error_message |-> ApiMsg("none", 0)]]

\* raise RuntimeError(...): no except clause of the loop catches it.
ApiRaise(a, message) ==
    [a EXCEPT !.pc = "ret", !.raised = TRUE,
              !.result = [success |-> FALSE, text |-> << >>,
                          error_message |-> message]]

\* The answers the loop retries: HTTP 500, HTTP 429, and the exceptions
\* requests.ConnectionError and requests.Timeout.
Retried(response) ==
    \/ response = Http(500)
    \/ response = Http(429)
    \/ response.kind \in {"connection_error", "timeout"}

\* A slip: the same wait after every retried answer.
WaitSame(response, backoff) == backoff

\* time.sleep(backoff), and time.sleep(backoff * 2) after HTTP 429
Wait(response, backoff) == IF response = Http(429) THEN backoff * 2 ELSE backoff

\* A slip: HTTP 429 is handled in the branch of HTTP 500.
ExhaustedMessageAs500(response, retries) ==
    IF response \in {Http(500), Http(429)}
    THEN ApiMsg("Error 500 persistente", retries)
    ELSE ApiMsg("Error de conectividad", 0)

\* The error_message of the result returned on the last attempt.
ExhaustedMessage(response, retries) ==
    IF response = Http(500) THEN ApiMsg("Error 500 persistente", retries)
    ELSE IF response = Http(429) THEN ApiMsg("Rate limit alcanzado", 0)
    ELSE ApiMsg("Error de conectividad", 0)

\* A slip: the last attempt is looked for one past the end of the range.
LastAttemptOffByOne(attempt, retries) == attempt > retries

\* if attempt == retries: return {...}, before the sleep
LastAttempt(attempt, retries) == attempt = retries

\* One iteration of the loop (lines 348-452) whose request meets `response`.
ApiAttempt(response) ==
    /\ api.pc = "loop"
    /\ api.attempt <= api.retries
    /\ LET log(slept) ==
               [api EXCEPT !.attempts = Append(@,
                   [engine |-> api.engine, digits_only |-> api.digits_only,
                    attempt |-> api.attempt, retries |-> api.retries,
                    fallback |-> api.fallback, response |-> response,
                    slept |-> slept])]
       IN  IF response.kind = "ok"
           THEN \E parsed \in ParsedTexts :
                    api' = ApiSuccess(log(0), ResultText(parsed, api.digits_only))
           ELSE IF response.kind = "no_results"
           THEN api' = ApiReturn(log(0), FALSE,
                                 ApiMsg("No se detectó texto en la imagen", 0))
           ELSE IF response.kind \in {"internal_server_error", "api_error"}
           THEN IF response.kind = "internal_server_error" /\ api.engine = 2
                THEN api' = ApiEnter(log(0), FallbackEngine, FallbackRetries, FALSE, TRUE)
                ELSE api' = ApiRaise(log(0), ApiMsg("OCR.Space error", 0))
           ELSE IF Retried(response)
           THEN IF LastAttempt(api.attempt, api.retries)
                THEN api' = ApiReturn(log(0), FALSE,
                                      ExhaustedMessage(response, api.retries))
                ELSE api' = [log(Wait(response, api.backoff)) EXCEPT
                                !.attempt = @ + 1, !.backoff = @ * 2]
           ELSE api' = ApiReturn(log(0), FALSE, ApiMsg("HTTP", response.code))
    /\ UNCHANGED <<providers, min_confidence_threshold, infoEnabled, cache, stats,
                   pc, caller, orch, call, ret, ncalls, prev, tess, txt, pre, conc,
                   db, client>>

\* The loop ended without a return (lines 454-459).
ApiExhausted ==
    /\ api.pc = "loop"
    /\ api.attempt > api.retries
    /\ api' = ApiReturn(api, FALSE, ApiMsg("Falló después de todos los reintentos", 0))
    /\ UNCHANGED <<providers, min_confidence_threshold, infoEnabled, cache, stats,
                   pc, caller, orch, call, ret, ncalls, prev, tess, txt, pre, conc,
                   db, client>>

\* OCRSpaceProvider(...): OCRProvider.__init__ sets is_available = False and
\* calls _initialize, which returns at once without an API key and runs
\* test_connection otherwise.
Construct(has_key, max_retries) ==
    /\ api.pc = "idle"
    /\ ~api.constructed
    /\ LET a == [api EXCEPT !.max_retries = max_retries, !.is_available = FALSE]
       IN  IF has_key
           THEN api' = ApiEnter([a EXCEPT !.purpose = "init"],
                                TestEngine, TestRetries, FALSE, FALSE)
           ELSE api' = [a EXCEPT !.constructed = TRUE]
    /\ UNCHANGED <<providers, min_confidence_threshold, infoEnabled, cache, stats,
                   pc, caller, orch, call, ret, ncalls, prev, tess, txt, pre, conc,
                   db, client>>

\* test_connection: 'success': True when _call_ocr_space_api returned, whatever
\* it returned; 'success': False when it raised.
test_connection(a) == ~a.raised

\* register_provider: if provider.is_available: self.providers.append(provider)
register_provider(list, provider, is_available) ==
    IF is_available THEN Append(list, provider) ELSE list

\* The end of the construction: test_connection returns, _initialize sets
\* is_available, and the processor registers the provider.
InitFinish ==
    /\ api.pc = "ret"
    /\ api.purpose = "init"
    /\ LET available == test_connection(api)
       IN  /\ api' = [api EXCEPT !.pc = "idle", !.purpose = "none",
                                 !.constructed = TRUE, !.is_available = available,
                                 !.init_response =
                                     api.attempts[Len(api.attempts)].response]
           /\ providers' = register_provider(providers, OCRSpace, available)
    /\ UNCHANGED <<min_confidence_threshold, infoEnabled, cache, stats,
                   pc, caller, orch, call, ret, ncalls, prev, tess, txt, pre, conc,
                   db, client>>

Registered(provider) == \E k \in DOMAIN providers : providers[k] = provider

\* OCRSpaceProvider.process_image (lines 106-174) of a registered provider:
\* engine 0 stands for engine=None.
ProcessCall(valid, engine, digits_only) ==
    /\ api.pc = "idle"
    /\ Registered(OCRSpace)
    /\ LET a == [api EXCEPT !.purpose = "process", !.attempts = << >>,
                            !.raised = FALSE, !.result = NoApiResult]
       IN  IF valid
           THEN api' = ApiEnter(a, IF engine = 0 THEN DefaultEngine ELSE engine,
                                api.max_retries, digits_only, FALSE)
           ELSE api' = [a EXCEPT !.purpose = "none",
                                 !.result = [success |-> FALSE, text |-> << >>,
                                             error_message |->
                                                 ApiMsg("Imagen no válida", 0)]]
    /\ UNCHANGED <<providers, min_confidence_threshold, infoEnabled, cache, stats,
                   pc, caller, orch, call, ret, ncalls, prev, tess, txt, pre, conc,
                   db, client>>

\* process_image returns the result of the API call, or the failure made of
\* the exception it raised (lines 166-174).
ProcessFinish ==
    /\ api.pc = "ret"
    /\ api.purpose = "process"
    /\ api' = [api EXCEPT !.pc = "idle", !.purpose = "none"]
    /\ UNCHANGED <<providers, min_confidence_threshold, infoEnabled, cache, stats,
                   pc, caller, orch, call, ret, ncalls, prev, tess, txt, pre, conc,
                   db, client>>

InitApi ==
    /\ providers = << >>
    /\ min_confidence_threshold = DefaultThreshold
    /\ infoEnabled = FALSE
    /\ cache = << >>
    /\ stats = [total_processed |-> 0, cache_hits |-> 0]
    /\ pc = "idle"
    /\ caller = "none"
    /\ orch = OrchIdle
    /\ call = CallIdle
    /\ ret = RetNone
    /\ ncalls = 0
    /\ prev = PrevNone
    /\ api = ApiIdle
    /\ tess = TessIdle
    /\ txt = TxtIdle
    /\ pre = PreIdle
    /\ conc = ConcIdle
    /\ db = DbIdle
    /\ client = ClientIdle

NextApi ==
    \/ \E has_key \in BOOLEAN, max_retries \in 0..MaxRetries :
           Construct(has_key, max_retries)
    \/ \E response \in Responses : ApiAttempt(response)
    \/ ApiExhausted
    \/ InitFinish
    \/ \E valid \in BOOLEAN, engine \in 0..3, digits_only \in BOOLEAN :
           ProcessCall(valid, engine, digits_only)
    \/ ProcessFinish

SpecApi == InitApi /\ [][NextApi]_vars

\* Every request is answered or runs into the timeout given to requests.post,
\* and every sleep ends: the loop goes on until it is left.
SpecApiFair ==
    /\ SpecApi
    /\ WF_vars(\E response \in Responses : ApiAttempt(response))
    /\ WF_vars(ApiExhausted)


(***************************************************************************)
(* Claims about the cloud provider.                                        *)
(***************************************************************************)
\* C15: when the endpoint cannot be reached (connection error or timeout)
\* while the cloud provider is constructed, the provider has
\* is_available=false and is not in the orchestrator's provider list.
C15_UnreachableNotRegistered ==
    (api.constructed /\ api.init_response.kind \in {"connection_error", "timeout"}) =>
        /\ ~api.is_available
        /\ ~Registered(OCRSpace)

ApiCallOver == api.pc \in {"ret", "idle"}

Recorded == 1..Len(api.attempts)

\* An HTTP 5xx answer, a connection error or a timeout.
Transient(response) ==
    \/ response.kind = "http" /\ response.code >= 500
    \/ response.kind \in {"connection_error", "timeout"}

\* C16: an HTTP 5xx answer, a connection error or a timeout met on an attempt
\* that is not the last one is followed by a wait and by another attempt: the
\* call does not end with it.
C16_TransientErrorsRetried ==
    \A k \in Recorded :
        LET a == api.attempts[k]
        IN  (Transient(a.response) /\ a.attempt < a.retries) =>
                /\ a.slept > 0
                /\ \/ k < Len(api.attempts)
                   \/ api.pc = "loop" /\ api.attempt = a.attempt + 1

\* Every attempt of the call, and there was one, was answered with HTTP 429.
AllRateLimited ==
    /\ ApiCallOver
    /\ Len(api.attempts) >= 1
    /\ \A k \in Recorded : api.attempts[k].response = Http(429)

\* C17: a call whose every attempt was answered with HTTP 429 returns
\* success=false with the rate-limit message, which is neither the message of
\* the exhausted retries on HTTP 500 nor the one on connection errors.
C17_RateLimitMessage ==
    AllRateLimited =>
        /\ ~api.result.success
        /\ ~api.raised
        /\ api.result.error_message.text = "Rate limit alcanzado"
        /\ api.result.error_message.text
               \notin {"Error 500 persistente", "Error de conectividad"}

\* Three attempts met HTTP 429, with waits of 4 and 8 seconds between them.
C17_Witness ==
    /\ AllRateLimited
    /\ Len(api.attempts) = 3
    /\ api.attempts[1].slept = 4
    /\ api.attempts[2].slept = 8
    /\ api.result.error_message.text = "Rate limit alcanzado"

\* The engine after `engine` in the cycle 2 -> 3 -> 1 -> 2.
NextEngine(engine) == IF engine = 2 THEN 3 ELSE IF engine = 3 THEN 1 ELSE 2

\* C18: when a request is answered with an engine processing error, the
\* provider makes one more request at once with the next engine of the cycle
\* 2 -> 3 -> 1 -> 2, whichever engine the failed request used; when that
\* request fails in the same way the call ends.
C18_EngineFallbackCycle ==
    \A k \in Recorded :
        LET a == api.attempts[k]
        IN  a.response.kind = "internal_server_error" =>
                IF a.fallback
                THEN k = Len(api.attempts) /\ ApiCallOver
                ELSE /\ a.slept = 0
                     /\ IF k < Len(api.attempts)
                        THEN /\ api.attempts[k + 1].engine = NextEngine(a.engine)
                             /\ api.attempts[k + 1].fallback
                        ELSE /\ api.pc = "loop"
                             /\ api.engine = NextEngine(a.engine)
                             /\ api.fallback


(***************************************************************************)
(* TesseractProvider.process_image and its temporary files                 *)
(* (src/src/integrations/ocr_providers/tesseract.py, lines 109-241).       *)
(* tess.fs is the set of temporary files that exist, tess.temp_files the   *)
(* list the finally block walks, tess.created the files the running call   *)
(* created.                                                                *)
(***************************************************************************)
MaxTessCalls == 2      \* process_image calls of one behaviour

\* The temporary files of call number n: the image and the output text.
TempImg(n) == [call |-> n, suffix |-> ".png"]
TempOut(n) == [call |-> n, suffix |-> ".txt"]

Elements(list) == { list[k] : k \in DOMAIN list }

\* Every way out of the try block leads to the finally block.
TessLeave(t, success, outcome) ==
    [t EXCEPT !.pc = "finally", !.success = success, !.outcome = outcome]

\* Lines 117-145: temp_files = [], the validation and
\* _prepare_image_for_tesseract, which raises or not.
T_Begin(valid, prepared) ==
    /\ tess.pc = "idle"
    /\ tess.ncalls < MaxTessCalls
    /\ LET t == [tess EXCEPT !.ncalls = @ + 1, !.temp_files = << >>,
                             !.created = {}, !.unlink_failed = FALSE,
                             !.success = FALSE, !.outcome = "none"]
       IN  IF ~valid THEN tess' = TessLeave(t, FALSE, "invalid")
           ELSE IF ~prepared THEN tess' = TessLeave(t, FALSE, "exception")
           ELSE tess' = [t EXCEPT !.pc = "create_img"]
    /\ UNCHANGED <<providers, min_confidence_threshold, infoEnabled, cache, stats,
                   pc, caller, orch, call, ret, ncalls, prev, api, txt, pre, conc,
                   db, client>>

\* with tempfile.NamedTemporaryFile(suffix='.png', delete=False) as temp_img
T_CreateImage(ok) ==
    /\ tess.pc = "create_img"
    /\ tess' = IF ok
               THEN [tess EXCEPT !.pc = "save",
                                 !.fs = @ \cup {TempImg(tess.ncalls)},
                                 !.created = @ \cup {TempImg(tess.ncalls)}]
               ELSE TessLeave(tess, FALSE, "exception")
    /\ UNCHANGED <<providers, min_confidence_threshold, infoEnabled, cache, stats,
                   pc, caller, orch, call, ret, ncalls, prev, api, txt, pre, conc,
                   db, client>>

\* processed_image.save(temp_img.name, 'PNG'), then
\* temp_files.append(temp_img.name)
T_Save(ok) ==
    /\ tess.pc = "save"
    /\ tess' = IF ok
               THEN [tess EXCEPT !.pc = "create_out",
                                 !.temp_files = Append(@, TempImg(tess.ncalls))]
               ELSE TessLeave(tess, FALSE, "exception")
    /\ UNCHANGED <<providers, min_confidence_threshold, infoEnabled, cache, stats,
                   pc, caller, orch, call, ret, ncalls, prev, api, txt, pre, conc,
                   db, client>>

\* with tempfile.NamedTemporaryFile(suffix='.txt', delete=False) as temp_out:
\*     temp_files.append(temp_out.name)
T_CreateOut(ok) ==
    /\ tess.pc = "create_out"
    /\ tess' = IF ok
               THEN [tess EXCEPT !.pc = "run",
                                 !.fs = @ \cup {TempOut(tess.ncalls)},
                                 !.created = @ \cup {TempOut(tess.ncalls)},
                                 !.temp_files = Append(@, TempOut(tess.ncalls))]
               ELSE TessLeave(tess, FALSE, "exception")
    /\ UNCHANGED <<providers, min_confidence_threshold, infoEnabled, cache, stats,
                   pc, caller, orch, call, ret, ncalls, prev, api, txt, pre, conc,
                   db, client>>

\* subprocess.run(cmd, ..., timeout=...): exit code 0, another exit code,
\* TimeoutExpired, or another exception.
T_Run(ended) ==
    /\ tess.pc = "run"
    /\ tess' = IF ended = "zero" THEN [tess EXCEPT !.pc = "read"]
               ELSE IF ended = "nonzero" THEN TessLeave(tess, FALSE, "exit_code")
               ELSE IF ended = "timeout" THEN TessLeave(tess, FALSE, "timeout")
               ELSE TessLeave(tess, FALSE, "exception")
    /\ UNCHANGED <<providers, min_confidence_threshold, infoEnabled, cache, stats,
                   pc, caller, orch, call, ret, ncalls, prev, api, txt, pre, conc,
                   db, client>>

\* Lines 175-205: output_file is output_base + '.txt', the path of temp_out;
\* it is there unless something outside removed it; reading it raises or not.
T_Read(removed, readable) ==
    /\ tess.pc = "read"
    /\ LET t == IF removed THEN [tess EXCEPT !.fs = @ \ {TempOut(tess.ncalls)}]
                ELSE tess
       IN  IF TempOut(tess.ncalls) \notin t.fs
           THEN tess' = TessLeave(t, FALSE, "no_output_file")
           ELSE IF ~readable THEN tess' = TessLeave(t, FALSE, "exception")
           ELSE tess' = TessLeave([t EXCEPT !.temp_files =
                                               Append(@, TempOut(tess.ncalls))],
                                  TRUE, "success")
    /\ UNCHANGED <<providers, min_confidence_threshold, infoEnabled, cache, stats,
                   pc, caller, orch, call, ret, ncalls, prev, api, txt, pre, conc,
                   db, client>>

\* The finally block (lines 233-241): with temp_cleanup, every listed file that
\* exists is unlinked; the files of `stuck` are those whose unlink raises, which
\* is logged and leaves them in place.
T_Finally(stuck) ==
    /\ tess.pc = "finally"
    /\ stuck \subseteq (Elements(tess.temp_files) \cap tess.fs)
    /\ tess.temp_cleanup \/ stuck = {}
    /\ tess' = [tess EXCEPT
                  !.pc = "idle",
                  !.fs = IF tess.temp_cleanup
                         THEN @ \ (Elements(tess.temp_files) \ stuck)
                         ELSE @,
                  !.unlink_failed = stuck # {}]
    /\ UNCHANGED <<providers, min_confidence_threshold, infoEnabled, cache, stats,
                   pc, caller, orch, call, ret, ncalls, prev, api, txt, pre, conc,
                   db, client>>

\* config['temp_cleanup'] is True unless the provider is configured otherwise.
InitTess ==
    /\ providers = << >>
    /\ min_confidence_threshold = DefaultThreshold
    /\ infoEnabled = FALSE
    /\ cache = << >>
    /\ stats = [total_processed |-> 0, cache_hits |-> 0]
    /\ pc = "idle"
    /\ caller = "none"
    /\ orch = OrchIdle
    /\ call = CallIdle
    /\ ret = RetNone
    /\ ncalls = 0
    /\ prev = PrevNone
    /\ api = ApiIdle
    /\ \E temp_cleanup \in BOOLEAN : tess = [TessIdle EXCEPT !.temp_cleanup = temp_cleanup]
    /\ txt = TxtIdle
    /\ pre = PreIdle
    /\ conc = ConcIdle
    /\ db = DbIdle
    /\ client = ClientIdle

NextTess ==
    \/ \E valid \in BOOLEAN, prepared \in BOOLEAN : T_Begin(valid, prepared)
    \/ \E ok \in BOOLEAN : T_CreateImage(ok)
    \/ \E ok \in BOOLEAN : T_Save(ok)
    \/ \E ok \in BOOLEAN : T_CreateOut(ok)
    \/ \E ended \in {"zero", "nonzero", "timeout", "exception"} : T_Run(ended)
    \/ \E removed \in BOOLEAN, readable \in BOOLEAN : T_Read(removed, readable)
    \/ \E stuck \in SUBSET {TempImg(tess.ncalls), TempOut(tess.ncalls)} : T_Finally(stuck)

SpecTess == InitTess /\ [][NextTess]_vars

\* C19: when a process_image call of the Tesseract provider has returned,
\* whatever its outcome, no temporary file that the call created exists any
\* more.  (Stated for the default temp_cleanup = True and for calls whose
\* unlink calls all went through.)
C19_NoTempFileLeft ==
    (tess.pc = "idle" /\ tess.ncalls >= 1 /\ tess.temp_cleanup /\ ~tess.unlink_failed) =>
        tess.created \cap tess.fs = {}


(***************************************************************************)
(* process_advanced on its own: a text and a language are given, the       *)
(* function is applied to the text, then to its own result.                *)
(***************************************************************************)
MaxTextLen == 3        \* length of the texts given to process_advanced

Alphabet == {"a", "n", "1", "I", "|", " "}
OxygenText == <<"O", "C", "R", " ", "0", "x", "y", "g", "e", "n">>
ExampleTexts == { OxygenText,
                  <<"2", "0", "2", "4">>,
                  <<"R", "2", "D", "2">>,
                  <<"a", "1", "a", "1">>,
                  <<"c", "0", "d", "1", "n", "g">>,
                  <<"1", "I", "1", "I", "1">> }
Texts == UNION { [1..n -> Alphabet] : n \in 0..MaxTextLen } \cup ExampleTexts
Languages == {"es", "en"}

\* process_advanced(text, language)['text']
ProcessOnce ==
    /\ txt.pc = "input"
    /\ txt' = [txt EXCEPT !.pc = "once",
                          !.once = process_advanced(txt.text, txt.language).text,
                          !.confused = ConfusionStep(Strip(txt.text))]
    /\ UNCHANGED <<providers, min_confidence_threshold, infoEnabled, cache, stats,
                   pc, caller, orch, call, ret, ncalls, prev, api, tess, pre, conc,
                   db, client>>

\* process_advanced(first['text'], language)['text']
ProcessTwice ==
    /\ txt.pc = "once"
    /\ txt' = [txt EXCEPT !.pc = "twice",
                          !.twice = process_advanced(txt.once, txt.language).text]
    /\ UNCHANGED <<providers, min_confidence_threshold, infoEnabled, cache, stats,
                   pc, caller, orch, call, ret, ncalls, prev, api, tess, pre, conc,
                   db, client>>

InitText ==
    /\ providers = << >>
    /\ min_confidence_threshold = DefaultThreshold
    /\ infoEnabled = FALSE
    /\ cache = << >>
    /\ stats = [total_processed |-> 0, cache_hits |-> 0]
    /\ pc = "idle"
    /\ caller = "none"
    /\ orch = OrchIdle
    /\ call = CallIdle
    /\ ret = RetNone
    /\ ncalls = 0
    /\ prev = PrevNone
    /\ api = ApiIdle
    /\ tess = TessIdle
    /\ \E text \in Texts, language \in Languages :
           txt = [TxtIdle EXCEPT !.pc = "input", !.text = text, !.language = language]
    /\ pre = PreIdle
    /\ conc = ConcIdle
    /\ db = DbIdle
    /\ client = ClientIdle

NextText ==
    \/ ProcessOnce
    \/ ProcessTwice

SpecText == InitText /\ [][NextText]_vars

\* C20: process_advanced is idempotent: applied to its own result, with the
\* same language, it returns that result.
C20_Idempotent ==
    txt.pc = "twice" => txt.twice = txt.once

(***************************************************************************)
(* _extract_digits_only on the texts a recognition can produce.            *)
(***************************************************************************)
DigitsAlphabet == {"1", "2", ".", ",", " ", "-", "k"}
ReadingText == <<"R", "e", "a", "d", "i", "n", "g", ":", " ", " ", "1", "2", "3",
                 "4", "5", ".", "6", "7", " ", "k", "W", "h">>
DigitsTexts == UNION { [1..n -> DigitsAlphabet] : n \in 0..MaxTextLen }
                   \cup { ReadingText,
                          <<"1", "k", "2", "2">>,
                          <<"1", " ", "2", "2", ".", "1">>,
                          <<"1", "2", "\n", "2">> }

\* _extract_digits_only(text)
ExtractDigits ==
    /\ txt.pc = "recognised"
    /\ txt' = [txt EXCEPT !.pc = "extracted",
                          !.digits = _extract_digits_only(txt.text)]
    /\ UNCHANGED <<providers, min_confidence_threshold, infoEnabled, cache, stats,
                   pc, caller, orch, call, ret, ncalls, prev, api, tess, pre, conc,
                   db, client>>

InitDigits ==
    /\ providers = << >>
    /\ min_confidence_threshold = DefaultThreshold
    /\ infoEnabled = FALSE
    /\ cache = << >>
    /\ stats = [total_processed |-> 0, cache_hits |-> 0]
    /\ pc = "idle"
    /\ caller = "none"
    /\ orch = OrchIdle
    /\ call = CallIdle
    /\ ret = RetNone
    /\ ncalls = 0
    /\ prev = PrevNone
    /\ api = ApiIdle
    /\ tess = TessIdle
    /\ \E text \in DigitsTexts :
           txt = [TxtIdle EXCEPT !.pc = "recognised", !.text = text]
    /\ pre = PreIdle
    /\ conc = ConcIdle
    /\ db = DbIdle
    /\ client = ClientIdle

NextDigits == ExtractDigits

SpecDigits == InitDigits /\ [][NextDigits]_vars

(***************************************************************************)
(* OCRSpaceProvider._map_language_code: the application's language code    *)
(* turned into a code of the service.                                      *)
(***************************************************************************)
get_supported_languages ==
    {"ara", "bul", "chs", "cht", "hrv", "cze", "dan", "dut", "eng", "fin",
     "fre", "ger", "gre", "hun", "kor", "ita", "jpn", "pol", "por", "rus",
     "slv", "spa", "swe", "tur"}

language_mapping ==
    ("es" :> "spa") @@ ("en" :> "eng") @@ ("fr" :> "fre") @@
    ("de" :> "ger") @@ ("it" :> "ita") @@ ("pt" :> "por") @@
    ("ru" :> "rus") @@ ("ar" :> "ara") @@ ("zh" :> "chs") @@
    ("ja" :> "jpn") @@ ("ko" :> "kor") @@ ("pl" :> "pol") @@
    ("sv" :> "swe") @@ ("tr" :> "tur") @@ ("nl" :> "dut") @@
    ("da" :> "dan") @@ ("fi" :> "fin") @@ ("el" :> "gre") @@
    ("hu" :> "hun") @@ ("hr" :> "hrv") @@ ("cs" :> "cze") @@
    ("bg" :> "bul") @@ ("sl" :> "slv")

\* str.lower() on the codes the model uses.
Lower(code) ==
    LET lowered == ("ES" :> "es") @@ ("EN" :> "en") @@ ("Fr" :> "fr")
                   @@ ("SPA" :> "spa") @@ ("ENG" :> "eng") @@ ("Ger" :> "ger")
                   @@ ("XX" :> "xx") @@ ("CAT" :> "cat")
    IN  IF code \in DOMAIN lowered THEN lowered[code] ELSE code

\* The application's own code for the default language.
UnsupportedFallback == "es"

\* The default of language_mapping.get
FallbackLanguage == "spa"

\* language_mapping.get(key, 'spa')
MappingGet(key) ==
    IF key \in DOMAIN language_mapping THEN language_mapping[key]
    ELSE FallbackLanguage

_map_language_code(language) ==
    IF language \in get_supported_languages THEN language
    ELSE MappingGet(Lower(language))

LanguageCodes ==
    get_supported_languages \cup DOMAIN language_mapping
        \cup {"ES", "EN", "Fr", "SPA", "ENG", "Ger", "XX", "CAT", "xx", "cat", ""}

\* _map_language_code(language)
MapOnce ==
    /\ txt.pc = "code"
    /\ txt' = [txt EXCEPT !.pc = "mapped",
                          !.mapped = _map_language_code(txt.language)]
    /\ UNCHANGED <<providers, min_confidence_threshold, infoEnabled, cache, stats,
                   pc, caller, orch, call, ret, ncalls, prev, api, tess, pre, conc,
                   db, client>>

\* _map_language_code(_map_language_code(language))
MapTwice ==
    /\ txt.pc = "mapped"
    /\ txt' = [txt EXCEPT !.pc = "mapped_twice",
                          !.mapped_twice = _map_language_code(txt.mapped)]
    /\ UNCHANGED <<providers, min_confidence_threshold, infoEnabled, cache, stats,
                   pc, caller, orch, call, ret, ncalls, prev, api, tess, pre, conc,
                   db, client>>

InitLang ==
    /\ providers = << >>
    /\ min_confidence_threshold = DefaultThreshold
    /\ infoEnabled = FALSE
    /\ cache = << >>
    /\ stats = [total_processed |-> 0, cache_hits |-> 0]
    /\ pc = "idle"
    /\ caller = "none"
    /\ orch = OrchIdle
    /\ call = CallIdle
    /\ ret = RetNone
    /\ ncalls = 0
    /\ prev = PrevNone
    /\ api = ApiIdle
    /\ tess = TessIdle
    /\ \E language \in LanguageCodes :
           txt = [TxtIdle EXCEPT !.pc = "code", !.language = language]
    /\ pre = PreIdle
    /\ conc = ConcIdle
    /\ db = DbIdle
    /\ client = ClientIdle

NextLang ==
    \/ MapOnce
    \/ MapTwice

SpecLang == InitLang /\ [][NextLang]_vars

(***************************************************************************)
(* ImagePreprocessor: preprocess_advanced, optimize_for_ocr and            *)
(* detect_document_bounds, one step of the body at a time; any step may    *)
(* raise.                                                                  *)
(***************************************************************************)
PreprocessSteps == <<"config", "convert", "_apply_basic_adjustments", "cvtColor",
                     "_opencv_processing", "fromarray", "_ensure_min_resolution">>
DetectSteps == <<"cvtColor", "Canny", "findContours", "boundingRect">>

StepsOf(method) ==
    IF method = "detect_document_bounds" THEN DetectSteps ELSE PreprocessSteps

\* The profiles of optimize_for_ocr.
Profiles == {"text", "handwriting", "invoice", "general"}
DocumentTypes == {"general", "invoice", "receipt"}

\* A try block that begins after the conversion to RGB.
InTryAfterConvert(method, step) ==
    ~(method # "detect_document_bounds" /\ step \in {"config", "convert"})

\* The step is inside the try block of its method: both bodies are one try
\* block from the first statement to the last.
InTry(method, step) == TRUE

Pre_Call(method, image, document_type, fails) ==
    /\ pre.pc = "idle"
    /\ pre' = [PreIdle EXCEPT
                  !.pc = IF method = "optimize_for_ocr" THEN "profile" ELSE "steps",
                  !.method = method, !.given = image, !.image = image,
                  !.document_type = document_type, !.fails = fails, !.step = 1]
    /\ UNCHANGED <<providers, min_confidence_threshold, infoEnabled, cache, stats,
                   pc, caller, orch, call, ret, ncalls, prev, api, tess, txt, conc,
                   db, client>>

\* optimize_for_ocr: profiles.get(document_type, profiles['general']), then
\* preprocess_advanced(image, **profile)
Pre_Profile ==
    /\ pre.pc = "profile"
    /\ pre' = [pre EXCEPT
                  !.pc = "steps",
                  !.profile = IF pre.document_type \in Profiles
                              THEN pre.document_type ELSE "general"]
    /\ UNCHANGED <<providers, min_confidence_threshold, infoEnabled, cache, stats,
                   pc, caller, orch, call, ret, ncalls, prev, api, tess, txt, conc,
                   db, client>>

\* One statement of preprocess_advanced: it raises, and the except branch
\* returns the local image, or it goes through.
Pre_Step ==
    /\ pre.pc = "steps"
    /\ pre.method # "detect_document_bounds"
    /\ LET step == PreprocessSteps[pre.step]
       IN  IF pre.fails = step
           THEN pre' = IF InTry(pre.method, step)
                       THEN [pre EXCEPT !.pc = "done", !.returned = "image",
                                        !.result = pre.image]
                       ELSE [pre EXCEPT !.pc = "done", !.raised = TRUE]
           ELSE IF step = "convert"
           THEN pre' = [pre EXCEPT !.step = @ + 1,
                                   !.image = [@ EXCEPT !.mode = "RGB"]]
           ELSE IF step = "fromarray"
           THEN pre' = [pre EXCEPT !.step = @ + 1,
                                   !.processed_image = [pre.image EXCEPT !.mode = "L"]]
           ELSE IF step = "_ensure_min_resolution"
           THEN pre' = [pre EXCEPT
                          !.pc = "done", !.returned = "image",
                          !.processed_image = _ensure_min_resolution(@),
                          !.result = _ensure_min_resolution(pre.processed_image)]
           ELSE pre' = [pre EXCEPT !.step = @ + 1]
    /\ UNCHANGED <<providers, min_confidence_threshold, infoEnabled, cache, stats,
                   pc, caller, orch, call, ret, ncalls, prev, api, tess, txt, conc,
                   db, client>>

\* One statement of detect_document_bounds; at the end a box is returned when
\* a contour large enough was found, None otherwise and on any exception.
Detect_Step ==
    /\ pre.pc = "steps"
    /\ pre.method = "detect_document_bounds"
    /\ LET step == DetectSteps[pre.step]
       IN  IF pre.fails = step
           THEN pre' = IF InTry(pre.method, step)
                       THEN [pre EXCEPT !.pc = "done", !.returned = "None"]
                       ELSE [pre EXCEPT !.pc = "done", !.raised = TRUE]
           ELSE IF pre.step = Len(DetectSteps)
           THEN \E found \in BOOLEAN :
                    pre' = [pre EXCEPT !.pc = "done",
                                       !.returned = IF found THEN "box" ELSE "None"]
           ELSE pre' = [pre EXCEPT !.step = @ + 1]
    /\ UNCHANGED <<providers, min_confidence_threshold, infoEnabled, cache, stats,
                   pc, caller, orch, call, ret, ncalls, prev, api, tess, txt, conc,
                   db, client>>

InitPre ==
    /\ providers = << >>
    /\ min_confidence_threshold = DefaultThreshold
    /\ infoEnabled = FALSE
    /\ cache = << >>
    /\ stats = [total_processed |-> 0, cache_hits |-> 0]
    /\ pc = "idle"
    /\ caller = "none"
    /\ orch = OrchIdle
    /\ call = CallIdle
    /\ ret = RetNone
    /\ ncalls = 0
    /\ prev = PrevNone
    /\ api = ApiIdle
    /\ tess = TessIdle
    /\ txt = TxtIdle
    /\ pre = PreIdle
    /\ conc = ConcIdle
    /\ db = DbIdle
    /\ client = ClientIdle

NextPre ==
    \/ \E method \in {"preprocess_advanced", "optimize_for_ocr",
                        "detect_document_bounds"},
          image \in Images, document_type \in DocumentTypes :
          \E fails \in {"none"} \cup { StepsOf(method)[k] : k \in DOMAIN StepsOf(method) } :
              Pre_Call(method, image,
                       IF method = "optimize_for_ocr" THEN document_type ELSE "none",
                       fails)
    \/ Pre_Profile
    \/ Pre_Step
    \/ Detect_Step

SpecPre == InitPre /\ [][NextPre]_vars

(***************************************************************************)
(* OCRProcessor.process_image run by several threads on one processor:     *)
(* the steps that touch self.cache, one dictionary operation at a time.    *)
(* The dictionary is a set of keys kept in the order of their insertion.   *)
(***************************************************************************)
MaxThreads == 2        \* concurrent process_image calls

ThreadIdle == [pc |-> "idle", image_hash |-> 0, use_cache |-> FALSE,
               ocr_success |-> FALSE, oldest_key |-> 0, success |-> FALSE,
               cached |-> FALSE, error |-> "none"]

Threads == 1..MaxThreads

\* The hashes of the images the calls bring: one below the stored hashes, one
\* among them, one above.
CallKeys == {1, 60, 150}

\* A cache filled by earlier calls, in the order of the hashes or against it.
FilledCaches ==
    { [k \in 1..n |-> 10 + k] : n \in {MaxCacheSize - 1, MaxCacheSize} }
        \cup { [k \in 1..n |-> 11 + n - k] : n \in {MaxCacheSize - 1, MaxCacheSize} }

Range(seq) == { seq[k] : k \in DOMAIN seq }

\* The thread goes on as `next`.
Step(t, next) == conc' = [conc EXCEPT !.threads[t] = next]

\* return of the except branch (lines 200-214)
Failure(thread, error) ==
    [thread EXCEPT !.pc = "returned", !.success = FALSE, !.cached = FALSE,
                   !.error = error]

\* process_image(image, use_cache=...) entered by a thread.
C_Call(t, image_hash, use_cache) ==
    /\ conc.threads[t].pc = "idle"
    /\ Step(t, [ThreadIdle EXCEPT !.pc = "member", !.image_hash = image_hash,
                                  !.use_cache = use_cache])
    /\ UNCHANGED <<providers, min_confidence_threshold, infoEnabled, cache, stats,
                   pc, caller, orch, call, ret, ncalls, prev, api, tess, txt, pre,
                   db, client>>

\* if use_cache and image_hash in self.cache (line 91)
C_Member(t) ==
    LET thread == conc.threads[t]
    IN  /\ thread.pc = "member"
        /\ Step(t, [thread EXCEPT !.pc =
                        IF thread.use_cache /\ thread.image_hash \in conc.cache
                        THEN "read" ELSE "pipeline"])
    /\ UNCHANGED <<providers, min_confidence_threshold, infoEnabled, cache, stats,
                   pc, caller, orch, call, ret, ncalls, prev, api, tess, txt, pre,
                   db, client>>

\* cached_result = self.cache[image_hash].copy() (line 93): KeyError when the
\* entry has gone since the test.
C_Read(t) ==
    LET thread == conc.threads[t]
    IN  /\ thread.pc = "read"
        /\ Step(t, IF thread.image_hash \in conc.cache
                   THEN [thread EXCEPT !.pc = "returned", !.success = TRUE,
                                       !.cached = TRUE]
                   ELSE Failure(thread, "KeyError"))
    /\ UNCHANGED <<providers, min_confidence_threshold, infoEnabled, cache, stats,
                   pc, caller, orch, call, ret, ncalls, prev, api, tess, txt, pre,
                   db, client>>

\* Steps 3 to 7 (lines 101-181), ending with final_result['success'], then
\* the test of line 184.
C_Pipeline(t, success) ==
    LET thread == conc.threads[t]
        done == [thread EXCEPT !.ocr_success = success, !.success = success]
    IN  /\ thread.pc = "pipeline"
        /\ Step(t, [done EXCEPT !.pc = IF ShouldStore(done, thread.use_cache)
                                        THEN "insert" ELSE "returned"])
    /\ UNCHANGED <<providers, min_confidence_threshold, infoEnabled, cache, stats,
                   pc, caller, orch, call, ret, ncalls, prev, api, tess, txt, pre,
                   db, client>>

\* self.cache[image_hash] = final_result.copy() (line 185): a key already in
\* the dictionary keeps its place in the order.
C_Insert(t) ==
    LET thread == conc.threads[t]
    IN  /\ thread.pc = "insert"
        /\ conc' = [conc EXCEPT
                       !.threads[t].pc = "size",
                       !.cache = @ \cup {thread.image_hash},
                       !.order = IF thread.image_hash \in conc.cache THEN @
                                 ELSE Append(@, thread.image_hash)]
    /\ UNCHANGED <<providers, min_confidence_threshold, infoEnabled, cache, stats,
                   pc, caller, orch, call, ret, ncalls, prev, api, tess, txt, pre,
                   db, client>>

\* if len(self.cache) > 100 (line 189)
C_Size(t) ==
    LET thread == conc.threads[t]
    IN  /\ thread.pc = "size"
        /\ Step(t, [thread EXCEPT !.pc =
                        IF Cardinality(conc.cache) > MaxCacheSize
                        THEN "choose" ELSE "returned"])
    /\ UNCHANGED <<providers, min_confidence_threshold, infoEnabled, cache, stats,
                   pc, caller, orch, call, ret, ncalls, prev, api, tess, txt, pre,
                   db, client>>

\* oldest_key = min(self.cache.keys()) (line 190)
C_Choose(t) ==
    LET thread == conc.threads[t]
    IN  /\ thread.pc = "choose"
        /\ Step(t, [thread EXCEPT !.pc = "delete",
                                  !.oldest_key = MinKey(conc.cache)])
    /\ UNCHANGED <<providers, min_confidence_threshold, infoEnabled, cache, stats,
                   pc, caller, orch, call, ret, ncalls, prev, api, tess, txt, pre,
                   db, client>>

\* del self.cache[oldest_key] (line 191): KeyError when another thread has
\* deleted the key since the choice.
C_Delete(t) ==
    LET thread == conc.threads[t]
    IN  /\ thread.pc = "delete"
        /\ IF thread.oldest_key \in conc.cache
           THEN conc' = [conc EXCEPT
                           !.threads[t].pc = "returned",
                           !.cache = @ \ {thread.oldest_key},
                           !.order = SelectSeq(@, LAMBDA k : k # thread.oldest_key),
                           !.evicted = Append(@, [key |-> thread.oldest_key,
                                                  earliest |-> conc.order[1],
                                                  by |-> t])]
           ELSE Step(t, Failure(thread, "KeyError"))
    /\ UNCHANGED <<providers, min_confidence_threshold, infoEnabled, cache, stats,
                   pc, caller, orch, call, ret, ncalls, prev, api, tess, txt, pre,
                   db, client>>

InitConc ==
    /\ providers = << >>
    /\ min_confidence_threshold = DefaultThreshold
    /\ infoEnabled = FALSE
    /\ cache = << >>
    /\ stats = [total_processed |-> 0, cache_hits |-> 0]
    /\ pc = "idle"
    /\ caller = "none"
    /\ orch = OrchIdle
    /\ call = CallIdle
    /\ ret = RetNone
    /\ ncalls = 0
    /\ prev = PrevNone
    /\ api = ApiIdle
    /\ tess = TessIdle
    /\ txt = TxtIdle
    /\ pre = PreIdle
    /\ \E filled \in FilledCaches :
           conc = [cache |-> Range(filled), order |-> filled,
                   threads |-> [t \in Threads |-> ThreadIdle],
                   evicted |-> << >>]
    /\ db = DbIdle
    /\ client = ClientIdle

NextConc ==
    \E t \in Threads :
        \/ \E image_hash \in CallKeys, use_cache \in BOOLEAN :
               C_Call(t, image_hash, use_cache)
        \/ C_Member(t)
        \/ C_Read(t)
        \/ \E success \in BOOLEAN : C_Pipeline(t, success)
        \/ C_Insert(t)
        \/ C_Size(t)
        \/ C_Choose(t)
        \/ C_Delete(t)

SpecConc == InitConc /\ [][NextConc]_vars

(***************************************************************************)
(* Step 3 of OCRProcessor.process_image with explicit preprocessing        *)
(* parameters: optimize_for_ocr with the preset of the document type,      *)
(* then preprocess_advanced with the explicit parameters.  pre.applied is  *)
(* the list of the enhancements made to the image, in order.               *)
(***************************************************************************)
AdjustmentKeys == {"brightness", "contrast", "sharpness"}

default_params == [brightness |-> 0, contrast |-> 100, sharpness |-> 0]

profiles ==
    [text        |-> [brightness |-> 10, contrast |-> 120, sharpness |-> 20],
     handwriting |-> [brightness |-> 5,  contrast |-> 110, sharpness |-> 10],
     invoice     |-> [brightness |-> 15, contrast |-> 130, sharpness |-> 25],
     general     |-> [brightness |-> 0,  contrast |-> 100, sharpness |-> 0]]

\* {**base, **over}
Merge(base, over) ==
    [k \in DOMAIN base \cup DOMAIN over |->
        IF k \in DOMAIN over THEN over[k] ELSE base[k]]

\* _apply_basic_adjustments: the enhancements it makes, in order.
_apply_basic_adjustments(config) ==
    (IF config.brightness # 0
     THEN <<[key |-> "brightness", value |-> config.brightness]>> ELSE << >>)
    \o (IF config.contrast # 100
        THEN <<[key |-> "contrast", value |-> config.contrast]>> ELSE << >>)
    \o (IF config.sharpness > 0
        THEN <<[key |-> "sharpness", value |-> config.sharpness]>> ELSE << >>)

\* The enhancements of preprocess_advanced(image, **params).
AdvancedAdjustments(params) ==
    _apply_basic_adjustments(Merge(default_params, params))

\* The enhancements of optimize_for_ocr(image, document_type).
OptimizeAdjustments(document_type) ==
    AdvancedAdjustments(IF document_type \in DOMAIN profiles
                        THEN profiles[document_type] ELSE profiles["general"])

\* The explicit parameters of a call: any of the three keys, each with a
\* neutral or another value.
ExplicitParams ==
    UNION { [keys -> {0, 20, 100}] : keys \in SUBSET AdjustmentKeys }

PresetTypes == {"text", "handwriting", "invoice", "general", "receipt"}

\* Lines 105-114: processed_image = optimize_for_ocr(image, document_type),
\* then, with parameters that are not empty,
\* processed_image = preprocess_advanced(processed_image, **preprocessing_params)
PI_Adjust ==
    /\ pre.pc = "params"
    /\ pre' = [pre EXCEPT
                  !.pc = "preprocessed",
                  !.applied =
                      OptimizeAdjustments(pre.document_type)
                      \o (IF DOMAIN pre.preprocessing_params # {}
                          THEN AdvancedAdjustments(pre.preprocessing_params)
                          ELSE << >>)]
    /\ UNCHANGED <<providers, min_confidence_threshold, infoEnabled, cache, stats,
                   pc, caller, orch, call, ret, ncalls, prev, api, tess, txt, conc,
                   db, client>>

InitParams ==
    /\ providers = << >>
    /\ min_confidence_threshold = DefaultThreshold
    /\ infoEnabled = FALSE
    /\ cache = << >>
    /\ stats = [total_processed |-> 0, cache_hits |-> 0]
    /\ pc = "idle"
    /\ caller = "none"
    /\ orch = OrchIdle
    /\ call = CallIdle
    /\ ret = RetNone
    /\ ncalls = 0
    /\ prev = PrevNone
    /\ api = ApiIdle
    /\ tess = TessIdle
    /\ txt = TxtIdle
    /\ \E document_type \in PresetTypes, params \in ExplicitParams :
           pre = [PreIdle EXCEPT !.pc = "params", !.method = "process_image",
                                 !.document_type = document_type,
                                 !.preprocessing_params = params]
    /\ conc = ConcIdle
    /\ db = DbIdle
    /\ client = ClientIdle

NextParams == PI_Adjust

SpecParams == InitParams /\ [][NextParams]_vars

(***************************************************************************)
(* ImagePreprocessor._ensure_min_resolution on images of many sizes.       *)
(***************************************************************************)
Sides == {19, 50, 500, 800, 999, 1000, 1200, 2000}

\* processed_image = self._ensure_min_resolution(processed_image, ...)
EnsureMinResolution ==
    /\ pre.pc = "resize"
    /\ pre' = [pre EXCEPT !.pc = "resized",
                          !.result = _ensure_min_resolution(pre.given)]
    /\ UNCHANGED <<providers, min_confidence_threshold, infoEnabled, cache, stats,
                   pc, caller, orch, call, ret, ncalls, prev, api, tess, txt, conc,
                   db, client>>

InitSize ==
    /\ providers = << >>
    /\ min_confidence_threshold = DefaultThreshold
    /\ infoEnabled = FALSE
    /\ cache = << >>
    /\ stats = [total_processed |-> 0, cache_hits |-> 0]
    /\ pc = "idle"
    /\ caller = "none"
    /\ orch = OrchIdle
    /\ call = CallIdle
    /\ ret = RetNone
    /\ ncalls = 0
    /\ prev = PrevNone
    /\ api = ApiIdle
    /\ tess = TessIdle
    /\ txt = TxtIdle
    /\ \E width \in Sides, height \in Sides :
           pre = [PreIdle EXCEPT
                    !.pc = "resize", !.method = "_ensure_min_resolution",
                    !.given = [mode |-> "L", width |-> width, height |-> height]]
    /\ conc = ConcIdle
    /\ db = DbIdle
    /\ client = ClientIdle

NextSize == EnsureMinResolution

SpecSize == InitSize /\ [][NextSize]_vars

(***************************************************************************)
(* DatabaseManager (src/backend/database.py): the tables ocr_jobs and      *)
(* odoo_records, the connection of the calling thread and its open         *)
(* transaction.  db.file is what is committed, db.connection what the      *)
(* connection sees; an operation is two steps, the statement inside the    *)
(* with block and the exit of get_connection.                              *)
(***************************************************************************)
MaxRows == 2           \* rows ever inserted into one table

NoImageData == 0       \* create_ocr_job called without image_data
ImageData == {1, 2}    \* the image bytes given to create_ocr_job
Null == << >>          \* SQL NULL

\* hashlib.sha256(image_data).hexdigest()
calculate_image_hash(image_data) == <<"sha256", image_data>>

\* image_hash TEXT UNIQUE: a row with this hash exists (NULLs never collide)
UniqueViolated(tables, image_hash) ==
    /\ image_hash # Null
    /\ \E row \in tables.ocr_jobs : row.image_hash = image_hash

\* INSERT INTO ocr_jobs (...) VALUES (...), id INTEGER PRIMARY KEY AUTOINCREMENT
InsertJob(tables, image_hash, old) ==
    LET id == tables.sqlite_sequence.ocr_jobs + 1
    IN  [tables EXCEPT
           !.ocr_jobs = @ \cup {[id |-> id, image_hash |-> image_hash,
                                 success |-> FALSE, old |-> old]},
           !.sqlite_sequence.ocr_jobs = id]

\* UPDATE ocr_jobs SET ... WHERE id = ?
UpdateJob(tables, job_id) ==
    [tables EXCEPT !.ocr_jobs =
        { IF row.id = job_id THEN [row EXCEPT !.success = TRUE] ELSE row :
              row \in @ }]

\* INSERT INTO odoo_records (...) VALUES (...): the foreign key is declared
\* and not enforced (no PRAGMA foreign_keys).
InsertOdooRecord(tables, ocr_job_id) ==
    LET id == tables.sqlite_sequence.odoo_records + 1
    IN  [tables EXCEPT
           !.odoo_records = @ \cup {[id |-> id, ocr_job_id |-> ocr_job_id]},
           !.sqlite_sequence.odoo_records = id]

\* DELETE FROM ocr_jobs WHERE created_at < datetime('now', '-N days')
DeleteOld(tables) ==
    [tables EXCEPT !.ocr_jobs = { row \in @ : ~row.old }]

\* The with block is entered and its statement runs: it raises, or it changes
\* what the connection sees.
Statement(d, op, raises, tables, returned) ==
    [d EXCEPT !.pc = "with", !.op = op, !.before = d.file,
              !.statement_raised = raises, !.raised = FALSE,
              !.connection = IF raises THEN @ ELSE tables,
              !.after = IF raises THEN d.connection ELSE tables,
              !.returned = IF raises THEN 0 ELSE returned]

\* create_ocr_job(image_data=..., created_at=...): `locked` stands for the
\* database being locked by another connection (sqlite3.OperationalError).
create_ocr_job(image_data, old, locked) ==
    /\ db.pc = "idle"
    /\ db.connection.sqlite_sequence.ocr_jobs < MaxRows
    /\ LET image_hash == IF image_data = NoImageData THEN Null
                         ELSE calculate_image_hash(image_data)
           raises == locked \/ UniqueViolated(db.connection, image_hash)
       IN  db' = Statement([db EXCEPT !.image_data = image_data, !.locked = locked],
                           "create_ocr_job", raises,
                           InsertJob(db.connection, image_hash, old),
                           db.connection.sqlite_sequence.ocr_jobs + 1)
    /\ UNCHANGED <<providers, min_confidence_threshold, infoEnabled, cache, stats,
                   pc, caller, orch, call, ret, ncalls, prev, api, tess, txt, pre, conc, client>>

\* update_ocr_job(job_id, ...): returns cursor.rowcount > 0 (1 or 0 here)
update_ocr_job(job_id, locked) ==
    /\ db.pc = "idle"
    /\ db' = Statement([db EXCEPT !.image_data = NoImageData, !.locked = locked],
                       "update_ocr_job", locked,
                       UpdateJob(db.connection, job_id),
                       IF \E row \in db.connection.ocr_jobs : row.id = job_id
                       THEN 1 ELSE 0)
    /\ UNCHANGED <<providers, min_confidence_threshold, infoEnabled, cache, stats,
                   pc, caller, orch, call, ret, ncalls, prev, api, tess, txt, pre, conc, client>>

\* create_odoo_record(ocr_job_id, ...)
create_odoo_record(ocr_job_id, locked) ==
    /\ db.pc = "idle"
    /\ db.connection.sqlite_sequence.odoo_records < MaxRows
    /\ db' = Statement([db EXCEPT !.image_data = NoImageData, !.locked = locked],
                       "create_odoo_record", locked,
                       InsertOdooRecord(db.connection, ocr_job_id),
                       db.connection.sqlite_sequence.odoo_records + 1)
    /\ UNCHANGED <<providers, min_confidence_threshold, infoEnabled, cache, stats,
                   pc, caller, orch, call, ret, ncalls, prev, api, tess, txt, pre, conc, client>>

\* cleanup_old_records(days): returns the number of deleted rows
cleanup_old_records(locked) ==
    /\ db.pc = "idle"
    /\ db' = Statement([db EXCEPT !.image_data = NoImageData, !.locked = locked],
                       "cleanup_old_records", locked,
                       DeleteOld(db.connection),
                       Cardinality({ row \in db.connection.ocr_jobs : row.old }))
    /\ UNCHANGED <<providers, min_confidence_threshold, infoEnabled, cache, stats,
                   pc, caller, orch, call, ret, ncalls, prev, api, tess, txt, pre, conc, client>>

\* self._local.connection.rollback(), then raise
rollback(d) == [d EXCEPT !.connection = d.file, !.raised = TRUE]

\* A slip: nothing is committed.
CommitNothing(d) == d

\* self._local.connection.commit()
commit(d) == [d EXCEPT !.file = d.connection]

\* get_connection after the yield: except Exception ... else ...
get_connection_exit ==
    /\ db.pc = "with"
    /\ db' = [(IF db.statement_raised THEN rollback(db) ELSE commit(db))
                 EXCEPT !.pc = "idle"]
    /\ UNCHANGED <<providers, min_confidence_threshold, infoEnabled, cache, stats,
                   pc, caller, orch, call, ret, ncalls, prev, api, tess, txt, pre, conc, client>>

InitDb ==
    /\ providers = << >>
    /\ min_confidence_threshold = DefaultThreshold
    /\ infoEnabled = FALSE
    /\ cache = << >>
    /\ stats = [total_processed |-> 0, cache_hits |-> 0]
    /\ pc = "idle"
    /\ caller = "none"
    /\ orch = OrchIdle
    /\ call = CallIdle
    /\ ret = RetNone
    /\ ncalls = 0
    /\ prev = PrevNone
    /\ api = ApiIdle
    /\ tess = TessIdle
    /\ txt = TxtIdle
    /\ pre = PreIdle
    /\ conc = ConcIdle
    /\ db = DbIdle
    /\ client = ClientIdle

NextDb ==
    \/ \E image_data \in ImageData \cup {NoImageData}, old \in BOOLEAN,
          locked \in BOOLEAN :
           create_ocr_job(image_data, old, locked)
    \/ \E job_id \in 1..MaxRows, locked \in BOOLEAN : update_ocr_job(job_id, locked)
    \/ \E ocr_job_id \in 1..MaxRows, locked \in BOOLEAN :
           create_odoo_record(ocr_job_id, locked)
    \/ \E locked \in BOOLEAN : cleanup_old_records(locked)
    \/ get_connection_exit

SpecDb == InitDb /\ [][NextDb]_vars

(***************************************************************************)
(* OCRSpaceClient (src/backend/ocr_space_client.py): concurrent calls of   *)
(* process_image_from_bytes and process_image_from_base64.  Both write     *)
(* the image to Path("temp_image.jpg") in the working directory, have      *)
(* process_image_from_path read it back, and unlink it.  A step of a call  *)
(* is one access to that file or one exchange with the OCR service; call   *)
(* number t is given image number t.                                       *)
(***************************************************************************)
Clients == 1..MaxThreads

NoClientResult == [success |-> FALSE, of |-> 0, message |-> "none"]

ClientCallIdle == [pc |-> "idle", method |-> "none", image |-> 0, loaded |-> 0,
                   alternative |-> FALSE, sent |-> << >>,
                   result |-> NoClientResult]

\* What ocr_space_image ends with: the parsed text, RuntimeError("Error 500
\* persistente ...") after the retries, or another error.
ServiceAnswers == {"ok", "Error 500", "OCR.Space error"}

\* The call t is made with its image.
Client_Call(t, method) ==
    /\ client.calls[t].pc = "idle"
    /\ client' = [client EXCEPT !.calls[t] =
                     [ClientCallIdle EXCEPT !.pc = "save", !.method = method,
                                            !.image = t]]
    /\ UNCHANGED <<providers, min_confidence_threshold, infoEnabled, cache, stats,
                   pc, caller, orch, call, ret, ncalls, prev, api, tess, txt, pre, conc, db>>

\* temp_path = Path("temp_image.jpg"); img.save(temp_path, "JPEG", quality=90)
Client_Save(t) ==
    /\ client.calls[t].pc = "save"
    /\ client' = [client EXCEPT
                     !.temp_image = [exists |-> TRUE, image |-> client.calls[t].image],
                     !.calls[t].pc = "load"]
    /\ UNCHANGED <<providers, min_confidence_threshold, infoEnabled, cache, stats,
                   pc, caller, orch, call, ret, ncalls, prev, api, tess, txt, pre, conc, db>>

\* if not result["success"] and "Error 500" in result.get("message", ""),
\* in process_image_from_bytes only and for the first result only
TriesAlternative(c, result) ==
    /\ c.method = "process_image_from_bytes"
    /\ ~c.alternative
    /\ ~result.success
    /\ result.message = "Error 500"

\* process_image_from_path returned `result`: the alternative engine is
\* tried, or the temporary file is removed next.
AfterPath(c, result) ==
    IF TriesAlternative(c, result)
    THEN [c EXCEPT !.pc = "load", !.alternative = TRUE, !.result = result]
    ELSE [c EXCEPT !.pc = "unlink", !.result = result]

\* process_image_from_path -> load_and_prepare: FileNotFoundError when the
\* path does not exist, else the file's image is read.
Client_Load(t) ==
    /\ client.calls[t].pc = "load"
    /\ LET c == client.calls[t]
       IN  IF ~client.temp_image.exists
           THEN client' = [client EXCEPT !.calls[t] =
                    AfterPath(c, [success |-> FALSE, of |-> 0,
                                  message |-> "No existe"])]
           ELSE client' = [client EXCEPT !.calls[t] =
                    [c EXCEPT !.pc = "request",
                              !.loaded = client.temp_image.image]]
    /\ UNCHANGED <<providers, min_confidence_threshold, infoEnabled, cache, stats,
                   pc, caller, orch, call, ret, ncalls, prev, api, tess, txt, pre, conc, db>>

\* ocr_space_image(image_bytes, ...): the loaded bytes are sent; the text
\* that comes back is the text of the image that was sent.
Client_Request(t, answer) ==
    /\ client.calls[t].pc = "request"
    /\ LET c == [client.calls[t] EXCEPT !.sent = Append(@, client.calls[t].loaded)]
           result == IF answer = "ok"
                     THEN [success |-> TRUE, of |-> c.loaded,
                           message |-> "OCR completado exitosamente"]
                     ELSE [success |-> FALSE, of |-> 0, message |-> answer]
       IN  client' = [client EXCEPT !.calls[t] = AfterPath(c, result)]
    /\ UNCHANGED <<providers, min_confidence_threshold, infoEnabled, cache, stats,
                   pc, caller, orch, call, ret, ncalls, prev, api, tess, txt, pre, conc, db>>

\* temp_path.unlink(missing_ok=True); return result
Client_Unlink(t) ==
    /\ client.calls[t].pc = "unlink"
    /\ client' = [client EXCEPT !.temp_image = NoFile,
                                !.calls[t].pc = "done"]
    /\ UNCHANGED <<providers, min_confidence_threshold, infoEnabled, cache, stats,
                   pc, caller, orch, call, ret, ncalls, prev, api, tess, txt, pre, conc, db>>

InitClient ==
    /\ providers = << >>
    /\ min_confidence_threshold = DefaultThreshold
    /\ infoEnabled = FALSE
    /\ cache = << >>
    /\ stats = [total_processed |-> 0, cache_hits |-> 0]
    /\ pc = "idle"
    /\ caller = "none"
    /\ orch = OrchIdle
    /\ call = CallIdle
    /\ ret = RetNone
    /\ ncalls = 0
    /\ prev = PrevNone
    /\ api = ApiIdle
    /\ tess = TessIdle
    /\ txt = TxtIdle
    /\ pre = PreIdle
    /\ conc = ConcIdle
    /\ db = DbIdle
    /\ client = [temp_image |-> NoFile,
                 calls |-> [t \in Clients |-> ClientCallIdle]]

NextClient ==
    \/ \E t \in Clients,
          method \in {"process_image_from_bytes", "process_image_from_base64"} :
           Client_Call(t, method)
    \/ \E t \in Clients : Client_Save(t)
    \/ \E t \in Clients : Client_Load(t)
    \/ \E t \in Clients, answer \in ServiceAnswers : Client_Request(t, answer)
    \/ \E t \in Clients : Client_Unlink(t)

SpecClient == InitClient /\ [][NextClient]_vars

\* C21: post-processing "OCR 0xygen" returns "OCR Oxygen": the digit 0 in
\* front of the letters is replaced by the letter O.
C21_OxygenCorrected ==
    (txt.pc \in {"once", "twice"} /\ txt.text = OxygenText)
        => txt.once = <<"O", "C", "R", " ", "O", "x", "y", "g", "e", "n">>

\* The character at position k has a character of the class on each side.
Between(text, k, class) ==
    /\ k > 1 /\ k < Len(text)
    /\ text[k - 1] \in class /\ text[k + 1] \in class

\* What the confusion step is to put at position k.
Corrected(text, k) ==
    LET digit == { n \in DOMAIN DigitRules : DigitRules[n][1] = text[k] }
        letter == { n \in DOMAIN LetterRules : LetterRules[n][1] = text[k] }
    IN  IF digit # {} /\ Between(text, k, Letters)
        THEN DigitRules[CHOOSE n \in digit : TRUE][2]
        ELSE IF letter # {} /\ Between(text, k, Digits)
        THEN LetterRules[CHOOSE n \in letter : TRUE][2]
        ELSE text[k]

\* C22: the confusion step changes a character if and only if it is one of
\* the digits 0,1,5,8,6 with a letter immediately on each side (replaced by
\* O,I,S,B,G) or a look-alike letter with a digit immediately on each side
\* (replaced by its digit): every such character is corrected, and no other
\* character of the text is touched.
C22_EmbeddedIffChanged ==
    txt.pc \in {"once", "twice"} =>
        /\ Len(txt.confused) = Len(Strip(txt.text))
        /\ \A k \in DOMAIN txt.confused :
               txt.confused[k] = Corrected(Strip(txt.text), k)

\* The pieces of the text: its contiguous subsequences.
Pieces(text) ==
    { SubSeq(text, i, j) : i \in 1..Len(text), j \in 1..Len(text) } \ {<< >>}

\* A number written in the text: digits, at most one separator among them.
WrittenNumber(piece) ==
    /\ piece # << >>
    /\ \A k \in DOMAIN piece : piece[k] \in Digits \cup Separators
    /\ piece[1] \in Digits /\ piece[Len(piece)] \in Digits
    /\ Cardinality({ k \in DOMAIN piece : piece[k] \in Separators }) <= 1

\* Digit groups with nothing but one run of whitespace inside, a sign allowed
\* in front.
SpacedNumber(piece) ==
    /\ piece # << >>
    /\ \A k \in DOMAIN piece :
           piece[k] \in Digits \cup Separators \cup Whitespace \cup Sign
    /\ \A k \in DOMAIN piece : piece[k] \in Sign => k = 1
    /\ \A k \in DOMAIN piece : piece[k] \in Whitespace =>
           /\ RunLen(piece, 1, Digits) >= 1
           /\ k > RunLen(piece, 1, Digits)
           /\ k <= RunLen(piece, 1, Digits)
                     + RunLen(piece, RunLen(piece, 1, Digits) + 1, Whitespace)

HasDigit(text) == \E k \in DOMAIN text : text[k] \in Digits

C24_OtherCodesFallBack ==
    txt.pc \in {"mapped", "mapped_twice"} =>
        /\ txt.mapped \in get_supported_languages
        /\ txt.language \in get_supported_languages => txt.mapped = txt.language
        /\ txt.language \in DOMAIN language_mapping =>
               txt.mapped = language_mapping[txt.language]
        /\ txt.language \notin get_supported_languages \cup DOMAIN language_mapping =>
               txt.mapped = "spa"
        /\ txt.pc = "mapped_twice" => txt.mapped_twice = txt.mapped

\* C24, amended: the result is a supported code; a supported code, written
\* in small letters as in the list, is returned as it is; a code of the table
\* in any letter case maps to its entry ('es' and 'ES' to 'spa'); any other
\* code, a supported code in capital letters included, maps to 'spa'; mapping
\* twice is mapping once.
C24_MapsToSupported ==
    txt.pc \in {"mapped", "mapped_twice"} =>
        /\ txt.mapped \in get_supported_languages
        /\ txt.language \in get_supported_languages => txt.mapped = txt.language
        /\ Lower(txt.language) \in DOMAIN language_mapping =>
               txt.mapped = language_mapping[Lower(txt.language)]
        /\ txt.language \in {"es", "ES"} => txt.mapped = "spa"
        /\ ( /\ txt.language \notin get_supported_languages
             /\ Lower(txt.language) \notin DOMAIN language_mapping )
               => txt.mapped = "spa"
        /\ txt.pc = "mapped_twice" => txt.mapped_twice = txt.mapped

\* A two-letter code in capital letters was mapped to its table entry.
C24_Witness ==
    /\ txt.pc = "mapped_twice"
    /\ txt.language = "EN"
    /\ txt.mapped = "eng"
    /\ txt.mapped_twice = "eng"

\* C25: preprocess_advanced, optimize_for_ocr and detect_document_bounds
\* never raise to the caller: when a step fails, the first two return an
\* image, the one they were given or the partially processed one, and
\* detect_document_bounds returns None.
C25_NeverRaises ==
    pre.pc = "done" =>
        /\ ~pre.raised
        /\ pre.method \in {"preprocess_advanced", "optimize_for_ocr"} =>
               /\ pre.returned = "image"
               /\ pre.result # NoImage
               /\ pre.fails # "none" =>
                      pre.result \in {pre.given, [pre.given EXCEPT !.mode = "RGB"]}
        /\ pre.method = "detect_document_bounds" =>
               /\ pre.returned \in {"box", "None"}
               /\ pre.fails # "none" => pre.returned = "None"

\* optimize_for_ocr returned the image converted to RGB after a later step
\* had failed.
C25_Witness ==
    /\ pre.pc = "done"
    /\ pre.method = "optimize_for_ocr"
    /\ pre.fails = "_opencv_processing"
    /\ pre.given.mode = "CMYK"
    /\ pre.result = [pre.given EXCEPT !.mode = "RGB"]

\* The providers a method of which was invoked in the current call.
AttemptedProviders == { orch.invoked[e].provider : e \in DOMAIN orch.invoked }

\* C26: for every max_attempts >= 0 passed to process_with_fallback, at most
\* max_attempts providers are attempted, and they are the first of the
\* registration order; with max_attempts omitted every registered provider
\* is eligible.
C26_AtMostMaxAttempts ==
    /\ orch.max_attempts # << >> =>
           /\ Cardinality(AttemptedProviders) <= orch.max_attempts[1]
           /\ \A provider \in AttemptedProviders :
                  \E k \in 1..Min(orch.max_attempts[1], Len(providers)) :
                      providers[k] = provider
    /\ (orch.max_attempts = << >> /\ pc = "orch_loop") =>
           AttemptList(orch.max_attempts) = providers

\* The requests of the call sent with the requested engine, and those of the
\* call it made with the alternate engine.
OwnRequests == { k \in Recorded : ~api.attempts[k].fallback }
AlternateRequests == { k \in Recorded : api.attempts[k].fallback }

\* At most n requests with the requested engine, at most one with another
\* engine, and no sleep after the final attempt.
RequestsBounded ==
    /\ \A k \in OwnRequests :
           /\ Cardinality(OwnRequests) <= api.attempts[k].retries
           /\ \A j \in OwnRequests : api.attempts[j].engine = api.attempts[k].engine
           /\ \A j \in AlternateRequests :
                  api.attempts[j].engine # api.attempts[k].engine
    /\ Cardinality(AlternateRequests) <= 1
    /\ \A k \in Recorded :
           api.attempts[k].attempt = api.attempts[k].retries =>
               api.attempts[k].slept = 0
    /\ (api.pc = "ret" /\ Len(api.attempts) >= 1) =>
           api.attempts[Len(api.attempts)].slept = 0

C28_BackoffDoubles ==
    /\ api.pc = "loop" => api.backoff = 2 ^ api.attempt
    /\ \A k \in Recorded :
           LET a == api.attempts[k]
           IN  a.slept > 0 =>
                   /\ a.response # Http(429) => a.slept = 2 ^ a.attempt
                   /\ a.response = Http(429) =>
                          /\ a.slept = 2 * (2 ^ a.attempt)
                          /\ a.slept > Wait(Http(500), 2 ^ a.attempt)

\* A first wait of 2 seconds after HTTP 500, a second of 8 after HTTP 429.
C28_Witness ==
    /\ Len(api.attempts) >= 2
    /\ api.attempts[1].response = Http(500) /\ api.attempts[1].slept = 2
    /\ api.attempts[2].response = Http(429) /\ api.attempts[2].slept = 8

\* C29: however the cache steps of concurrent process_image calls interleave,
\* a call whose OCR succeeded does not return a failure record, and once all
\* calls have returned the cache holds at most 100 entries.
C29_CacheStepsSafe ==
    /\ \A t \in DOMAIN conc.threads :
           (conc.threads[t].pc = "returned" /\ conc.threads[t].ocr_success) =>
               conc.threads[t].success
    /\ (\A t \in DOMAIN conc.threads : conc.threads[t].pc \in {"idle", "returned"}) =>
           Cardinality(conc.cache) <= MaxCacheSize

\* C30: when an insertion makes the cache exceed its capacity of 100 entries,
\* the entry evicted is the one inserted earliest among the stored entries.
C30_EvictsEarliestInserted ==
    \A e \in DOMAIN conc.evicted :
        conc.evicted[e].key = conc.evicted[e].earliest

\* A process_image or clear_cache call has returned, or none was made yet.
BetweenCalls == pc \in {"idle", "pi_done", "pi_raised"}

\* C31: after any sequence of sequential process_image and clear_cache
\* calls, the cache holds at most 100 entries whenever a call has returned.
C31_CacheBounded ==
    BetweenCalls => Cardinality(DOMAIN cache) <= MaxCacheSize

\* A call stored its result in a full cache, which is full after it.
C31_Witness ==
    /\ pc = "pi_done"
    /\ ret.success /\ ~ret.cached
    /\ Cardinality(DOMAIN call.cache_before) = MaxCacheSize
    /\ call.image_hash \notin DOMAIN call.cache_before
    /\ Cardinality(DOMAIN cache) = MaxCacheSize

\* C32: when a process_image call with use_cache=true returns success=true
\* with cached=false, the cache holds an entry for the hash of its image:
\* the eviction never removes the entry the call has just inserted.
C32_OwnEntryKept ==
    (pc = "pi_done" /\ call.use_cache /\ ret.success /\ ~ret.cached) =>
        call.image_hash \in DOMAIN cache

\* The value that leaves the image as it is.
Neutral(key, value) ==
    \/ key = "brightness" /\ value = 0
    \/ key = "contrast" /\ value = 100
    \/ key = "sharpness" /\ value <= 0

\* C33: with a preset and explicit parameters both in effect, each of
\* brightness, contrast and sharpness is applied to the image exactly once,
\* with the explicit value in place of the preset's: not at all when that
\* value is neutral (explicit brightness 0 with 'invoice').
C33_ExplicitOverridesPreset ==
    ( /\ pre.pc = "preprocessed"
      /\ pre.document_type \in DOMAIN profiles
      /\ DOMAIN pre.preprocessing_params # {} ) =>
        \A key \in AdjustmentKeys :
            LET effective == IF key \in DOMAIN pre.preprocessing_params
                             THEN pre.preprocessing_params[key]
                             ELSE profiles[pre.document_type][key]
                made == { i \in DOMAIN pre.applied : pre.applied[i].key = key }
            IN  IF Neutral(key, effective) THEN made = {}
                ELSE /\ Cardinality(made) = 1
                     /\ \A i \in made : pre.applied[i].value = effective

LongerSide(image) ==
    IF image.width >= image.height THEN image.width ELSE image.height

\* C34: the resolution step changes the size only when the longer side is
\* below 1000 pixels: an image whose longer side is at least 1000 (1200x500)
\* keeps its dimensions, and an upscaled image has its longer side at 1000.
C34_LongerSideDecides ==
    pre.pc = "resized" =>
        /\ LongerSide(pre.given) >= MinResolution => pre.result = pre.given
        /\ LongerSide(pre.given) < MinResolution =>
               LongerSide(pre.result) = MinResolution

\* Empty, or an optional leading '-', then digits and at most one '.'.
DigitsText(text) ==
    LET body == IF text # << >> /\ text[1] = "-" THEN Tail(text) ELSE text
    IN  /\ \A k \in DOMAIN body : body[k] \in Digits \cup {"."}
        /\ Cardinality({ k \in DOMAIN body : body[k] = "." }) <= 1

\* The process_image call was made with digits_only=True.
DigitsMode ==
    /\ api.purpose = "process"
    /\ api.attempts # << >>
    /\ api.attempts[1].digits_only

\* C35: in digits-only mode every successful result of the cloud provider's
\* API call has a text that is empty or made of an optional leading '-',
\* digits and at most one '.', the result of the alternate-engine retry
\* included.
C35_DigitsModeTextIsNumber ==
    (api.pc = "ret" /\ DigitsMode /\ api.result.success) =>
        DigitsText(api.result.text)

\* get_stats: cache_hits / max(total_processed, 1) * 100, in hundredths of a
\* percent.
cache_hit_rate ==
    (stats.cache_hits * 10000) \div
        (IF stats.total_processed > 1 THEN stats.total_processed ELSE 1)

\* C36: after any sequence of process_image calls the cache_hit_rate that
\* get_stats reports lies between 0 and 100 percent: cache_hits never
\* exceeds the number of processed requests it is divided by.
C36_HitRateIsPercentage ==
    BetweenCalls =>
        /\ cache_hit_rate >= 0
        /\ cache_hit_rate <= 10000
        /\ stats.cache_hits <= stats.total_processed

OperationOver == db.pc = "idle" /\ db.op # "none"

\* C37: create_ocr_job succeeds once per pipeline run, also for a run whose
\* image bytes are those of an already recorded job: recording the same
\* image twice yields two job entries and no error.
C37_SameImageRecordedAgain ==
    (OperationOver /\ db.op = "create_ocr_job" /\ db.image_data # NoImageData
       /\ ~db.locked) =>
        /\ ~db.raised
        /\ Cardinality(db.file.ocr_jobs) = Cardinality(db.before.ocr_jobs) + 1

\* C38: if the statement of a DatabaseManager operation raises, the
\* transaction is rolled back and the exception is re-raised, so the tables
\* hold exactly what they held before the call; when the operation
\* completes normally its changes are committed.
C38_RolledBackOrCommitted ==
    OperationOver =>
        /\ db.statement_raised =>
               /\ db.raised
               /\ db.file = db.before
               /\ db.connection = db.before
        /\ ~db.statement_raised =>
               /\ ~db.raised
               /\ db.file = db.after
               /\ db.connection = db.after

\* An operation raised on tables that hold rows, and another one before it
\* had changed them.
C38_Witness ==
    /\ OperationOver
    /\ db.raised
    /\ db.file.ocr_jobs # {}
    /\ db.file.odoo_records # {}
    /\ db.file = db.before

\* C39: when process_image_from_bytes or process_image_from_base64 are
\* called concurrently with different images, each call sends its own image
\* to the OCR service and returns that image's result: no call reads an
\* image file written by another call or fails because another call deleted
\* its temporary file.
C39_EachCallItsOwnImage ==
    \A t \in DOMAIN client.calls :
        LET c == client.calls[t]
        IN  /\ \A k \in DOMAIN c.sent : c.sent[k] = c.image
            /\ c.pc = "done" =>
                   /\ c.result.success => c.result.of = c.image
                   /\ c.result.message # "No existe"

====
